---- MODULE Spec2Model ----
(***************************************************************************)
(* LED-GRID: the GridServer rooms (src/src/server.ts), their sync loops    *)
(* and the shared WLED client (the WledGridClient listing in               *)
(* src/README.md, lines 120-531), modelled as one event loop:              *)
(* macrotasks (timers, socket events, HTTP responses, inbound messages)    *)
(* run one at a time, and the promise continuations they make runnable     *)
(* (microQ) run to completion, in FIFO order, before the next macrotask.   *)
(***************************************************************************)
EXTENDS Integers, Sequences, FiniteSets, Bags, TLC

\* ------------------------------------------------------------------ bounds

\* Grid dimensions of the model (the deployment uses 48 x 48 cells)
GRID_WIDTH == 2
GRID_HEIGHT == 1
TOTAL_CELLS == GRID_WIDTH * GRID_HEIGHT

\* Sockets the client may create in one run.
MaxSockets == 1
\* requests (draw, clear, executeUtility, room switch) handled in a run
MaxRequests == 2

\* ------------------------------------------------------- program constants

LARGE_BATCH_PIXEL_THRESHOLD == 300
WEBSOCKET_LIMIT == 1400
HTTP_LIMIT == 5000

\* WLED_CONFIG retry delays, and the delay of the check of a non-active room
LED_UPDATE_RETRY_MS_WEBSOCKET == 1
LED_UPDATE_RETRY_MS_HTTP == 1000
INACTIVE_CHECK_MS == 1000

\* ------------------------------------------------------------------ values

RoomIds == {"default", "r1"}
ConnIds == {"c1"}

\* Strings the code inspects are sequences of one-character strings.
\* A cell colour that is undefined is the one-element sequence below (no
\* character has that many letters, so it is no string a client can send).
Undefined == <<"undefined">>

Red == <<"#", "f", "0", "0">>
Green == <<"0", "0", "f", "f", "0", "0">>
Bad == <<"z", "z", "z">>
DrawColors == {Red, Green, Bad}

HexDigits == {"0","1","2","3","4","5","6","7","8","9",
              "a","b","c","d","e","f","A","B","C","D","E","F"}
Digits == {"0","1","2","3","4","5","6","7","8","9"}

\* String.prototype.toUpperCase, one character
UpperChar(ch) ==
  CASE ch = "a" -> "A" [] ch = "b" -> "B" [] ch = "c" -> "C"
    [] ch = "d" -> "D" [] ch = "e" -> "E" [] ch = "f" -> "F"
    [] ch = "z" -> "Z" [] ch = "r" -> "R" [] ch = "g" -> "G"
    [] OTHER -> ch

toUpperCase(s) == [i \in 1..Len(s) |-> UpperChar(s[i])]

\* String.prototype.slice(from, to) with 0-based, end-exclusive bounds
Slice(s, from, to) ==
  LET hi == IF to < Len(s) THEN to ELSE Len(s)
  IN  IF from >= hi THEN <<>> ELSE SubSeq(s, from + 1, hi)

RECURSIVE TrimLeft(_)
TrimLeft(s) == IF s # <<>> /\ Head(s) = " " THEN TrimLeft(Tail(s)) ELSE s

RECURSIVE TrimRight(_)
TrimRight(s) ==
  IF s # <<>> /\ s[Len(s)] = " " THEN TrimRight(SubSeq(s, 1, Len(s) - 1)) ELSE s

Trim(s) == TrimRight(TrimLeft(s))

DigitValue(ch) ==
  CASE ch = "0" -> 0 [] ch = "1" -> 1 [] ch = "2" -> 2 [] ch = "3" -> 3
    [] ch = "4" -> 4 [] ch = "5" -> 5 [] ch = "6" -> 6 [] ch = "7" -> 7
    [] ch = "8" -> 8 [] ch = "9" -> 9 [] OTHER -> 0

HexChar(n) ==
  CASE n = 0 -> "0" [] n = 1 -> "1" [] n = 2 -> "2" [] n = 3 -> "3"
    [] n = 4 -> "4" [] n = 5 -> "5" [] n = 6 -> "6" [] n = 7 -> "7"
    [] n = 8 -> "8" [] n = 9 -> "9" [] n = 10 -> "a" [] n = 11 -> "b"
    [] n = 12 -> "c" [] n = 13 -> "d" [] n = 14 -> "e" [] OTHER -> "f"

\* n.toString(16).padStart(2, "0") for 0 <= n <= 255
HexByte(n) == <<HexChar(n \div 16), HexChar(n % 16)>>

\* the capture groups of the rgb()/rgba() patterns of toHex: the string is
\* "rgb(" or "rgba(", then comma-separated fields, then ")"
RECURSIVE SplitFields(_, _)
SplitFields(s, cur) ==
  IF s = <<>> THEN <<cur>>
  ELSE IF Head(s) = "," THEN <<cur>> \o SplitFields(Tail(s), <<>>)
  ELSE SplitFields(Tail(s), Append(cur, Head(s)))

IsChannel(f) ==
  Len(f) \in 1..3 /\ \A i \in 1..Len(f) : f[i] \in Digits

RECURSIVE DecimalValue(_)
DecimalValue(f) ==
  IF f = <<>> THEN 0
  ELSE 10 * DecimalValue(SubSeq(f, 1, Len(f) - 1)) + DigitValue(f[Len(f)])

\* (0|0?\.\d+|1(?:\.0)?)
IsAlpha(f) ==
  \/ f = <<"0">>
  \/ f = <<"1">>
  \/ f = <<"1", ".", "0">>
  \/ /\ Len(f) >= 2
     /\ \/ /\ f[1] = "." /\ \A i \in 2..Len(f) : f[i] \in Digits
        \/ /\ Len(f) >= 3 /\ f[1] = "0" /\ f[2] = "."
           /\ \A i \in 3..Len(f) : f[i] \in Digits

\* the three channels matched by either pattern, or <<>> when neither matches
RgbMatch(c) ==
  LET lower == [i \in 1..Len(c) |->
                  CASE c[i] = "R" -> "r" [] c[i] = "G" -> "g" [] c[i] = "B" -> "b"
                    [] c[i] = "A" -> "a" [] OTHER -> c[i]]
      isRgb == Len(c) >= 5 /\ SubSeq(lower, 1, 4) = <<"r", "g", "b", "(">>
      isRgba == Len(c) >= 6 /\ SubSeq(lower, 1, 5) = <<"r", "g", "b", "a", "(">>
      inner == IF isRgb THEN SubSeq(c, 5, Len(c) - 1)
               ELSE IF isRgba THEN SubSeq(c, 6, Len(c) - 1) ELSE <<>>
      raw == SplitFields(inner, <<>>)
      fields == [i \in 1..Len(raw) |-> Trim(raw[i])]
  IN  IF c = <<>> \/ c[Len(c)] # ")" THEN <<>>
      ELSE IF isRgb /\ Len(fields) = 3 /\ \A i \in 1..3 : IsChannel(fields[i])
        THEN <<DecimalValue(fields[1]), DecimalValue(fields[2]), DecimalValue(fields[3])>>
      ELSE IF isRgba /\ Len(fields) = 4 /\ (\A i \in 1..3 : IsChannel(fields[i]))
              /\ IsAlpha(fields[4])
        THEN <<DecimalValue(fields[1]), DecimalValue(fields[2]), DecimalValue(fields[3])>>
      ELSE <<>>

Clamp255(n) == IF n < 0 THEN 0 ELSE IF n > 255 THEN 255 ELSE n

\* toHex of src/src/utils.ts: never throws
toHex(color) ==
  IF color = Undefined \/ color = <<>> THEN <<"0", "0", "0", "0", "0", "0">>
  ELSE LET c == Trim(color)
           m == RgbMatch(c)
       IN  IF c # <<>> /\ c[1] = "#"
             THEN LET hex == Slice(c, 1, Len(c))
                  IN  IF Len(hex) = 3
                        THEN toUpperCase(<<hex[1], hex[1], hex[2], hex[2], hex[3], hex[3]>>)
                        ELSE toUpperCase(Slice(hex, 0, 6))
           ELSE IF m # <<>>
             THEN toUpperCase(HexByte(Clamp255(m[1])) \o HexByte(Clamp255(m[2]))
                              \o HexByte(Clamp255(m[3])))
           ELSE toUpperCase(c)

\* normalizeHex of the WLED client, for a string colour: it throws unless the
\* string is exactly six hex digits after an optional leading '#'
StripHash(color) ==
  IF color # <<>> /\ color[1] = "#" THEN Slice(color, 1, Len(color)) ELSE color

normalizeHexThrows(color) ==
  LET trimmed == StripHash(color)
  IN  ~(Len(trimmed) = 6 /\ \A i \in 1..6 : trimmed[i] \in HexDigits)

normalizeHex(color) == toUpperCase(StripHash(color))

\* Math.round of a number given in tenths: halves round up
Round(tenths) == (tenths + 5) \div 10

\* normalizeHex for an {r, g, b} colour, the channels given in tenths: each
\* is rounded, clamped to 0..255 and written as two uppercase hex digits
normalizeHexRgb(r, g, b) ==
  toUpperCase(HexByte(Clamp255(Round(r))) \o HexByte(Clamp255(Round(g)))
              \o HexByte(Clamp255(Round(b))))

Black == <<"0", "0", "0", "0", "0", "0">>

Orientations == {"top-left", "top-right", "bottom-left", "bottom-right"}

\* the range check at the head of computeIndex
computeIndexThrows(x, y, width, height) ==
  x < 0 \/ x >= width \/ y < 0 \/ y >= height

\* rows laid out by the height of the grid
computeIndexByHeight(x, y, width, height, serpentine, orientation) ==
  LET ox == IF orientation \in {"top-right", "bottom-right"} THEN width - 1 - x ELSE x
      ny == IF orientation \in {"bottom-left", "bottom-right"} THEN height - 1 - y ELSE y
      nx == IF serpentine /\ ny % 2 = 1 THEN width - 1 - ox ELSE ox
  IN  ny * height + nx

\* computeIndex past its range check: the coordinate is reflected into
\* top-left row-major order, then odd rows of a serpentine grid are reversed
computeIndex(x, y, width, height, serpentine, orientation) ==
  LET ox == IF orientation \in {"top-right", "bottom-right"} THEN width - 1 - x ELSE x
      ny == IF orientation \in {"bottom-left", "bottom-right"} THEN height - 1 - y ELSE y
      nx == IF serpentine /\ ny % 2 = 1 THEN width - 1 - ox ELSE ox
  IN  ny * width + nx


\* ----------------------------------------------------------------- chunker

\* JSON.stringify of a chunk body {on, seg: [{id, i}], v, tt} without the
\* elements of i: {"on":true,"seg":[{"id":0,"i":[ and ]}],"v":false,"tt":0}
EnvelopeBytes == 52

DecimalDigits(n) ==
  IF n < 10 THEN 1 ELSE IF n < 100 THEN 2 ELSE IF n < 1000 THEN 3 ELSE 4

\* one [index, hex] pair inside i: the number, a comma, the quoted string
PairBytes(p) == DecimalDigits(p[1]) + 1 + 2 + Len(p[2])

\* the bytes the elements lo..hi of i take, commas between them included
\* (halving keeps the evaluation shallow on batches of hundreds of pairs)
RECURSIVE ElementBytes(_, _, _)
ElementBytes(rest, lo, hi) ==
  IF lo > hi THEN 0
  ELSE IF lo = hi THEN PairBytes(rest[lo])
  ELSE LET mid == (lo + hi) \div 2
       IN  ElementBytes(rest, lo, mid) + 1 + ElementBytes(rest, mid + 1, hi)

\* byteLengthUtf8(JSON.stringify(bodySub)) with iSub the first k pairs
BodyBytes(rest, k) == EnvelopeBytes + ElementBytes(rest, 1, k)

\* the inner loop of sendPixels: grow the chunk by one pair while the
\* serialized body stays within the limit, and stop at the first one that
\* does not fit; the result is lastGoodEnd, in pairs
GrowChunk(rest, limit) ==
  LET breaks == {k \in 1..Len(rest) : BodyBytes(rest, k) > limit}
  IN  IF breaks = {} THEN Len(rest)
      ELSE (CHOOSE k \in breaks : \A j \in breaks : k <= j) - 1

\* the chunk is what fits, without the forced pair
ChunkLenUnforced(rest, limit) == GrowChunk(rest, limit)

\* number of pairs of the next chunk (at least one: forward progress)
ChunkLen(rest, limit) ==
  LET lastGood == GrowChunk(rest, limit)
  IN  IF lastGood = 0 THEN 1 ELSE lastGood

\* --------------------------------------------------------------- the state

VARIABLES
  activeRoom,       \* GridServer.activeRoom
  roomStates,       \* GridServer.roomStates: room -> cells, NoState when absent
  roomOrder,        \* keys of GridServer.roomConnections, in insertion order
  roomConnections,  \* GridServer.roomConnections: room -> connection ids
  phase,            \* per room: "new", "loading" (onStart awaits storage), "started", "failed"
  gridState,        \* per room instance: cells
  dirtyIndices,     \* per room instance: dirty cell indices, in insertion order
  storage,          \* per room: the stored "gridState", NoState when absent
  activeUtility,    \* per room: UtilityManager.activeUtility
  utilPending,      \* per room: executeUtility calls awaiting utility.execute()
  timers,           \* per room: updateLED callbacks pending on setTimeout
  microQ,           \* runnable promise continuations, FIFO
  pace,             \* sendPixels calls awaiting the delay after a chunk
  posts,            \* HTTP requests in flight, with the call that awaits each
  waiters,          \* per socket: calls awaiting that connect attempt's promise
  socks,            \* sockets created so far: state and the attempt's promise
  wsOpen,           \* WledGridClient.wsOpen
  wsReadyPromise,   \* WledGridClient.wsReadyPromise: 0 is null, else a socket number
  wsMessageQueue,   \* WledGridClient.wsMessageQueue
  hw,               \* colour shown by the display, per LED index
  latest,           \* per room and cell: colour of the most recent accepted write
  nRequests,        \* requests handled so far
  last,             \* the step just taken: operation, result, messages put on the wire
  opts,             \* the options and limits the WLED client runs with
  budget            \* the bounds of the run: sockets created, requests handled,
                    \* and whether calls keep the history of their chunks

vars == <<activeRoom, roomStates, roomOrder, roomConnections, phase, gridState,
          dirtyIndices, storage, activeUtility, utilPending, timers, microQ,
          pace, posts, waiters, socks, wsOpen, wsReadyPromise, wsMessageQueue,
          hw, latest, nRequests, last, opts, budget>>

Cells == 0..(TOTAL_CELLS - 1)

\* A cell array is a tuple: cell index i is element i + 1.
NoState == <<>>
createEmptyGrid == [i \in 1..TOTAL_CELLS |-> Undefined]
\* this.gridState[idx]?.color
CellOf(grid, idx) == IF idx + 1 \in DOMAIN grid THEN grid[idx + 1] ELSE Undefined

NoMsg == [type |-> "none", room |-> "", pairs |-> <<>>]
PixelsMsg(r, pairs) == [type |-> "pixels", room |-> r, pairs |-> pairs]
ClearMsg(r) == [type |-> "clear", room |-> r, pairs |-> <<>>]

\* An async call parked at an await. kind: "send" (sendPixels called by
\* updateLED), "clearMsg" (clearAll called by a 'clear' message),
\* "clearSwitch" (clearAll called by setActiveRoom, with the room state
\* captured before the await). pc: "ensure" (awaiting ensureWebSocket),
\* "pace", "post", "resume" (setActiveRoom after its awaited clear).
\* batch and out are history, read by no action: the pixels sendPixels was
\* called with and the chunks it has emitted so far.
Call(kind, r, pc, att, rest, ws, snap, msg) ==
  [rest |-> rest, room |-> r, kind |-> kind, pc |-> pc, att |-> att,
   ws |-> ws, snap |-> snap, msg |-> msg, batch |-> <<>>, out |-> <<>>]

\* The record of a step: the operation and its room and result where a claim
\* speaks of them ("clearDone": the hardware clear of a 'clear' message was
\* delivered; "event" otherwise), the client call it started, the batch
\* updateLED drained, and the messages it put on the wire.
Ev(op, r, ret, started, drained, emitted) ==
  [room |-> r, op |-> op, ret |-> ret, started |-> started, drained |-> drained,
   emitted |-> emitted, input |-> <<>>, delay |-> 0]

\* the record of a step that has done B: the delay of the updateLED callback
\* it put on setTimeout (0 when it scheduled none)
Scheduled(e, B) == [e EXCEPT !.delay = B.delay]

\* the record of a step of onMessage, with the message it was given
Received(e, message) == [e EXCEPT !.input = message]

Wire(m, via) == [type |-> m.type, room |-> m.room, pairs |-> m.pairs, via |-> via]

\* the display after a message
\* the colour each LED named by pairs lo..hi ends with: a later pair for the
\* same LED wins (halving keeps the evaluation shallow on large batches)
RECURSIVE Overrides(_, _, _)
Overrides(pairs, lo, hi) ==
  IF lo = hi THEN pairs[lo][1] :> pairs[lo][2]
  ELSE LET mid == (lo + hi) \div 2
       IN  Overrides(pairs, mid + 1, hi) @@ Overrides(pairs, lo, mid)

ApplyPairs(h, pairs) ==
  IF pairs = <<>> THEN h
  ELSE LET o == Overrides(pairs, 1, Len(pairs))
       IN  [i \in DOMAIN h |-> IF i - 1 \in DOMAIN o THEN o[i - 1] ELSE h[i]]

ApplyMsg(h, m) ==
  IF m.type = "clear" THEN [i \in DOMAIN h |-> Black]
  ELSE ApplyPairs(h, m.pairs)

RECURSIVE ApplyAll(_, _)
ApplyAll(h, msgs) ==
  IF msgs = <<>> THEN h ELSE ApplyAll(ApplyMsg(h, Head(msgs)), Tail(msgs))

\* The state after construction, with a WLED client built with options o,
\* for a run within the bounds b.
Constructed(o, b) ==
  /\ activeRoom = "default"
  /\ roomStates = [r \in RoomIds |-> NoState]
  /\ roomOrder = <<>>
  /\ roomConnections = [r \in RoomIds |-> {}]
  /\ phase = [r \in RoomIds |-> "new"]
  /\ gridState = [r \in RoomIds |-> createEmptyGrid]
  /\ dirtyIndices = [r \in RoomIds |-> <<>>]
  /\ storage = [r \in RoomIds |-> NoState]
  /\ activeUtility = [r \in RoomIds |-> "null"]
  /\ utilPending = [r \in RoomIds |-> 0]
  /\ timers = [r \in RoomIds |-> 0]
  /\ microQ = <<>>
  /\ pace = <<>>
  /\ posts = <<>>
  /\ waiters = <<>>
  /\ socks = <<>>
  /\ wsOpen = FALSE
  /\ wsReadyPromise = 0
  /\ wsMessageQueue = <<>>
  /\ hw = [i \in 1..(o.gridWidth * o.gridHeight) |-> Black]
  /\ latest = [r \in RoomIds |-> createEmptyGrid]
  /\ nRequests = 0
  /\ last = Ev("init", "", "none", "none", <<>>, <<>>)
  /\ opts = o
  /\ budget = b

\* export const wled = new WledGridClient({ gridWidth: GRID_WIDTH, ... })
wled ==
  [gridWidth |-> GRID_WIDTH, gridHeight |-> GRID_HEIGHT, useWebSocket |-> TRUE,
   largeBatch |-> LARGE_BATCH_PIXEL_THRESHOLD, wsLimit |-> WEBSOCKET_LIMIT,
   httpLimit |-> HTTP_LIMIT]

Init ==
  Constructed(wled, [sockets |-> MaxSockets, requests |-> MaxRequests,
                     history |-> FALSE])


\* ------------------------------------------------- the WLED client session

\* What one step has done so far to the state the asynchronous calls share:
\* helpers take such a record and return the next one, Commit writes it.
Cur ==
  [timers |-> timers, microQ |-> microQ, pace |-> pace, posts |-> posts,
   waiters |-> waiters, socks |-> socks, wsOpen |-> wsOpen,
   wsReadyPromise |-> wsReadyPromise, hw |-> hw, started |-> "none",
   drained |-> <<>>, emitted |-> <<>>, delay |-> 0, ok |-> TRUE,
   queue |-> wsMessageQueue, dirty |-> <<>>]

Commit(B) ==
  /\ B.ok
  /\ timers' = B.timers
  /\ microQ' = B.microQ
  /\ pace' = B.pace
  /\ posts' = B.posts
  /\ waiters' = B.waiters
  /\ socks' = B.socks
  /\ wsOpen' = B.wsOpen
  /\ wsReadyPromise' = B.wsReadyPromise
  /\ wsMessageQueue' = B.queue
  /\ hw' = B.hw

\* this.ws && this.wsOpen (this.ws is the socket created last)
SessionUsable(B) == Len(B.socks) # 0 /\ B.wsOpen

\* ensureWebSocket up to its first suspension, called by c. The session is
\* usable: c continues with true. A connect attempt is recorded: c awaits its
\* promise. Otherwise a socket is created and c awaits the new promise.
EnsureStart(B, c) ==
  IF ~opts.useWebSocket
    THEN [B EXCEPT !.microQ = Append(@, [c EXCEPT !.att = -1])]
  ELSE IF SessionUsable(B)
    THEN [B EXCEPT !.microQ = Append(@, [c EXCEPT !.att = 0])]
  ELSE IF B.wsReadyPromise # 0
    THEN IF B.socks[B.wsReadyPromise].prom = "pending"
           THEN [B EXCEPT !.waiters[B.wsReadyPromise] =
                             Append(@, [c EXCEPT !.att = B.wsReadyPromise])]
           ELSE [B EXCEPT !.microQ = Append(@, [c EXCEPT !.att = B.wsReadyPromise])]
  ELSE [B EXCEPT !.ok = B.ok /\ Len(B.socks) < budget.sockets,
                 !.socks = Append(@, [prom |-> "pending", st |-> "connecting"]),
                 !.wsReadyPromise = Len(B.socks) + 1,
                 !.waiters = Append(@, <<[c EXCEPT !.att = Len(B.socks) + 1]>>)]

\* what ensureWebSocket returns to c once the promise it awaited has settled
EnsureResult(B, c) ==
  IF c.att = 0 THEN TRUE
  ELSE IF c.att = -1 THEN FALSE
  ELSE IF B.socks[c.att].prom = "rejected" THEN FALSE
  ELSE B.wsOpen

\* sendOverWebSocket: queue when the session is not usable; else send on
\* this.ws, which delivers on an open socket, throws on a connecting one
\* (the message is queued) and discards on a closing or closed one
sendOverWebSocket(B, m) ==
  IF ~SessionUsable(B) THEN [B EXCEPT !.queue = Append(@, m)]
  ELSE IF B.socks[Len(B.socks)].st = "open"
    THEN [B EXCEPT !.hw = ApplyMsg(@, m), !.emitted = Append(@, Wire(m, "ws"))]
  ELSE IF B.socks[Len(B.socks)].st = "connecting"
    THEN [B EXCEPT !.queue = Append(@, m)]
  ELSE B

\* postJson: the request is on the wire; c awaits the response
PostJson(B, c, m) ==
  [B EXCEPT !.posts = Append(@, [c EXCEPT !.pc = "post", !.msg = m]),
            !.emitted = Append(@, Wire(m, "http"))]

\* setTimeout(this.updateLED.bind(this), ms) in room r
RetryAfter(B, r, ms) == [B EXCEPT !.timers[r] = @ + 1, !.delay = ms]

\* retryMs: chosen by the option of the client
retryMs ==
  IF opts.useWebSocket THEN LED_UPDATE_RETRY_MS_WEBSOCKET ELSE LED_UPDATE_RETRY_MS_HTTP

\* retryFn: the loop of room r schedules its next tick after retryMs
RetryFn(B, r) == RetryAfter(B, r, retryMs)

\* the send is awaited by nobody and its rejection schedules nothing
OnSendRejectedDropped(B, r) == B

\* sendPixels(...).catch: the promise rejected
OnSendRejected(B, r) == RetryFn(B, r)

\* sendPixels(...).then: the promise fulfilled
OnSendFulfilled(B, r) == RetryFn(B, r)

\* the next tick is scheduled without waiting for the send
AfterSendCallRetries(B, r) == RetryFn(B, r)

\* updateLED after the call wled.sendPixels(updates).then(...).catch(...):
\* it returns, nothing is scheduled outside the two callbacks
AfterSendCall(B, r) == B

\* every transport gets the HTTP limit
LimitForHttpAlways(willUseWS) == opts.httpLimit

\* const limit = willUseWS ? WEBSOCKET_LIMIT : HTTP_LIMIT
LimitFor(willUseWS) == IF willUseWS THEN opts.wsLimit ELSE opts.httpLimit

\* the next chunk starts at the last pair of this one
RemainingFromLast(rest, n) == SubSeq(rest, n, Len(rest))

\* startIndex = lastGoodEnd: the pairs left after a chunk of n pairs
Remaining(rest, n) == SubSeq(rest, n + 1, Len(rest))

Emitted(c, pairs) ==
  IF budget.history
    THEN Append(c.out, [pairs |-> pairs, via |-> IF c.ws THEN "ws" ELSE "http"])
    ELSE c.out

\* one iteration of the chunk loop of sendPixels for call c (c.rest is not
\* empty, c.ws is the transport chosen for the batch)
NextChunk(B, c) ==
  LET n == ChunkLen(c.rest, LimitFor(c.ws))
      m == PixelsMsg(c.room, SubSeq(c.rest, 1, n))
      c2 == [c EXCEPT !.rest = Remaining(c.rest, n),
                      !.out = Emitted(c, SubSeq(c.rest, 1, n))]
  IN  IF c.ws
        THEN LET S == sendOverWebSocket(B, m)
             IN  [S EXCEPT !.pace = Append(@, [c2 EXCEPT !.pc = "pace"])]
        ELSE PostJson(B, c2, m)

\* the end of an iteration: the next chunk, or sendPixels settles and the
\* then-callback of updateLED reschedules
AfterChunk(B, c) ==
  IF c.rest = <<>> THEN OnSendFulfilled(B, c.room) ELSE NextChunk(B, c)

\* every index is taken
ValidIndexAny(index) == TRUE

\* !Number.isInteger(index) || index < 0 || index >= gridWidth * gridHeight, negated
ValidIndex(index) == index >= 0 /\ index < opts.gridWidth * opts.gridHeight

\* no batch is large
ForceHttpNever(iArray) == FALSE

\* pixelCountTotal > 300
ForceHttpForLargeBatch(iArray) == Len(iArray) > opts.largeBatch

\* sendPixels up to its first suspension, called by updateLED of room r
SendPixelsStart(B, r, updates) ==
  LET valid == SelectSeq(updates, LAMBDA u : ValidIndex(u[1]))
      throws == \E k \in 1..Len(valid) : normalizeHexThrows(valid[k][2])
      iArray == [k \in 1..Len(valid) |-> <<valid[k][1], normalizeHex(valid[k][2])>>]
      S == [B EXCEPT !.started = "sendPixels"]
      c == [Call("send", r, "ensure", 0, iArray, FALSE, NoState, NoMsg)
              EXCEPT !.batch = IF budget.history THEN updates ELSE <<>>]
  IN  IF updates = <<>> THEN OnSendFulfilled(S, r)
      ELSE IF throws THEN OnSendRejected([S EXCEPT !.started = "sendPixelsThrew"], r)
      ELSE IF iArray = <<>> THEN OnSendFulfilled(S, r)
      ELSE IF ForceHttpForLargeBatch(iArray) THEN NextChunk(S, c)
      ELSE EnsureStart(S, c)

\* every room whose state is registered drains
IsActiveRoomIfKnown(r) == roomStates[r] # NoState

\* roomId !== GridServer.activeRoom, negated
IsActiveRoom(r) == r = activeRoom

\* the drain of updateLED: every dirty index with toHex of its current colour
DrainUpdates(grid, d) == [k \in 1..Len(d) |-> <<d[k], toHex(CellOf(grid, d[k]))>>]

\* updateLED of room r, whose cells are grid and whose dirty indices are d
UpdateLED(B, r, grid, d) ==
  IF ~IsActiveRoom(r) THEN RetryAfter([B EXCEPT !.dirty = d], r, INACTIVE_CHECK_MS)
  ELSE IF d = <<>> THEN RetryFn([B EXCEPT !.dirty = d], r)
  ELSE AfterSendCall(
         SendPixelsStart([B EXCEPT !.dirty = <<>>, !.drained = DrainUpdates(grid, d)],
                         r, DrainUpdates(grid, d)), r)

\* for (i = 0; i < TOTAL_CELLS; i++) dirtyIndices.add(i)
RECURSIVE AddAll(_, _)
AddAll(d, i) ==
  IF i >= TOTAL_CELLS THEN d
  ELSE AddAll(IF \E k \in 1..Len(d) : d[k] = i THEN d ELSE Append(d, i), i + 1)

MarkAllDirty(d) == AddAll(d, 0)

SetAdd(d, i) == IF \E k \in 1..Len(d) : d[k] = i THEN d ELSE Append(d, i)

RemoveAt(s, i) == SubSeq(s, 1, i - 1) \o SubSeq(s, i + 1, Len(s))


\* ------------------------------------------------------- room start-up

Known == {r \in RoomIds : phase[r] \in {"started", "failed"}}

\* onStart up to the await of storage.get: the instance and the room's
\* connection set are registered
OnStartBegin(r) ==
  /\ microQ = <<>>
  /\ phase[r] = "new"
  /\ phase' = [phase EXCEPT ![r] = "loading"]
  /\ roomOrder' = IF \E k \in 1..Len(roomOrder) : roomOrder[k] = r
                    THEN roomOrder ELSE Append(roomOrder, r)
  /\ last' = Ev("event", "", "none", "none", <<>>, <<>>)
  /\ UNCHANGED <<opts, budget, activeRoom, roomStates, roomConnections, gridState, dirtyIndices,
                 storage, activeUtility, utilPending, timers, microQ, pace, posts,
                 waiters, socks, wsOpen, wsReadyPromise, wsMessageQueue, hw,
                 latest, nRequests>>

\* onStart after storage.get resolved: load, register the room state, mark
\* every cell dirty, start the sync loop
OnStartLoad(r) ==
  /\ microQ = <<>>
  /\ phase[r] = "loading"
  /\ LET grid == IF storage[r] # NoState THEN storage[r] ELSE gridState[r]
         U == UpdateLED(Cur, r, grid, MarkAllDirty(dirtyIndices[r]))
     IN  /\ Commit(U)
         /\ gridState' = [gridState EXCEPT ![r] = grid]
         /\ roomStates' = [roomStates EXCEPT ![r] = grid]
         /\ latest' = [latest EXCEPT ![r] = grid]
         /\ dirtyIndices' = [dirtyIndices EXCEPT ![r] = U.dirty]
         /\ last' = Scheduled(Ev("onStart", r, "none", U.started, U.drained, U.emitted), U)
  /\ phase' = [phase EXCEPT ![r] = "started"]
  /\ UNCHANGED <<opts, budget, activeRoom, roomOrder, roomConnections, storage, activeUtility,
                 utilPending, nRequests>>

\* onStart when storage.get rejects: the catch resets the cells and nothing
\* after the await runs
OnStartLoadFails(r) ==
  /\ microQ = <<>>
  /\ phase[r] = "loading"
  /\ phase' = [phase EXCEPT ![r] = "failed"]
  /\ gridState' = [gridState EXCEPT ![r] = createEmptyGrid]
  /\ last' = Ev("event", "", "none", "none", <<>>, <<>>)
  /\ UNCHANGED <<opts, budget, activeRoom, roomStates, roomOrder, roomConnections, dirtyIndices,
                 storage, activeUtility, utilPending, timers, microQ, pace, posts,
                 waiters, socks, wsOpen, wsReadyPromise, wsMessageQueue, hw,
                 latest, nRequests>>

\* ------------------------------------------------------------ sync loop

\* a pending setTimeout of room r fires: updateLED
TimerFire(r) ==
  /\ microQ = <<>>
  /\ timers[r] > 0
  /\ LET U == UpdateLED([Cur EXCEPT !.timers[r] = @ - 1], r, gridState[r],
                        dirtyIndices[r])
     IN  /\ Commit(U)
         /\ dirtyIndices' = [dirtyIndices EXCEPT ![r] = U.dirty]
         /\ last' = Scheduled(Ev("updateLED", r, "none", U.started, U.drained, U.emitted), U)
  /\ UNCHANGED <<opts, budget, activeRoom, roomStates, roomOrder, roomConnections, phase,
                 gridState, storage, activeUtility, utilPending, latest, nRequests>>

\* the delay after a chunk elapsed (chunkNumber * 20 ms after a WebSocket
\* chunk, HTTP_WAIT_MS after an HTTP response)
PaceDone(i) ==
  /\ microQ = <<>>
  /\ i \in 1..Len(pace)
  /\ LET c == pace[i]
         U == AfterChunk([Cur EXCEPT !.pace = RemoveAt(@, i)], c)
     IN  /\ Commit(U)
         /\ last' = Scheduled(Ev("event", "", "none", "none", <<>>, U.emitted), U)
  /\ UNCHANGED <<opts, budget, activeRoom, roomStates, roomOrder, roomConnections, phase,
                 gridState, dirtyIndices, storage, activeUtility, utilPending,
                 latest, nRequests>>

\* clearAll settled for call c: setActiveRoom resumes after its await; the
\* 'clear' message handler has nothing left to do
ClearSettled(B, c) ==
  IF c.kind = "clearSwitch"
    THEN [B EXCEPT !.microQ = Append(@, [c EXCEPT !.pc = "resume"])]
    ELSE B

\* an HTTP request settles: "ok" (2xx, the display applied the body), "bad"
\* (another status) or "reject" (the fetch promise rejects)
HttpResponse(i, outcome) ==
  /\ microQ = <<>>
  /\ i \in 1..Len(posts)
  /\ LET c == posts[i]
         B0 == [Cur EXCEPT !.posts = RemoveAt(@, i),
                           !.hw = IF outcome = "ok" THEN ApplyMsg(@, c.msg) ELSE @]
         U == IF c.kind = "send"
                THEN IF outcome = "reject" THEN OnSendRejected(B0, c.room)
                     ELSE [B0 EXCEPT !.pace = Append(@, [c EXCEPT !.pc = "pace",
                                                                  !.msg = NoMsg])]
                ELSE ClearSettled(B0, [c EXCEPT !.msg = NoMsg])
     IN  /\ Commit(U)
         /\ last' = IF c.kind = "clearMsg" /\ outcome = "ok"
                      THEN Ev("clearDone", c.room, "none", "none", <<>>, U.emitted)
                      ELSE Scheduled(Ev("event", "", "none", "none", <<>>, U.emitted), U)
  /\ UNCHANGED <<opts, budget, activeRoom, roomStates, roomOrder, roomConnections, phase,
                 gridState, dirtyIndices, storage, activeUtility, utilPending,
                 latest, nRequests>>

\* the continuation at the head of the microtask queue runs
RunMicrotask ==
  /\ microQ # <<>>
  /\ LET c == Head(microQ)
         B0 == [Cur EXCEPT !.microQ = Tail(@)]
         res == EnsureResult(B0, c)
     IN  IF c.pc = "resume"
           THEN \* setActiveRoom after `await wled.clearAll()`
                LET U == UpdateLED(B0, c.room, c.snap,
                                   MarkAllDirty(dirtyIndices[c.room]))
                IN  /\ Commit(U)
                    /\ gridState' = [gridState EXCEPT ![c.room] = c.snap]
                    /\ dirtyIndices' = [dirtyIndices EXCEPT ![c.room] = U.dirty]
                    /\ last' = Scheduled(Ev("switchResume", c.room, "true", U.started, U.drained, U.emitted), U)
         ELSE IF c.kind = "send"
           THEN \* sendPixels after `await this.ensureWebSocket()`
                LET U == NextChunk(B0, [c EXCEPT !.ws = res])
                IN  /\ Commit(U)
                    /\ last' = Scheduled(Ev("event", "", "none", "none", <<>>, U.emitted), U)
                    /\ UNCHANGED <<gridState, dirtyIndices>>
         ELSE \* setRangeColor after `await this.ensureWebSocket()`
                LET U == IF res
                           THEN ClearSettled(sendOverWebSocket(B0, ClearMsg(c.room)), c)
                           ELSE PostJson(B0, c, ClearMsg(c.room))
                IN  /\ Commit(U)
                    /\ last' = IF c.kind = "clearMsg" /\ res /\ U.emitted # <<>>
                                 THEN Ev("clearDone", c.room, "none", "none", <<>>, U.emitted)
                                 ELSE Scheduled(Ev("event", "", "none", "none", <<>>,
                                                   U.emitted), U)
                    /\ UNCHANGED <<gridState, dirtyIndices>>
  /\ UNCHANGED <<opts, budget, activeRoom, roomStates, roomOrder, roomConnections, phase,
                 storage, activeUtility, utilPending, latest, nRequests>>


\* --------------------------------------------------------- socket events

\* the newest queued message goes out first
FlushNewestFirst(queue) == [k \in 1..Len(queue) |-> queue[Len(queue) + 1 - k]]

\* for (const msg of this.wsMessageQueue) ws.send(msg)
FlushOrder(queue) == queue

\* ws.onopen of socket s: flush the queue on s, resolve the attempt's promise
SocketOpen(s) ==
  /\ microQ = <<>>
  /\ s \in 1..Len(socks)
  /\ socks[s].st = "connecting"
  /\ socks' = [socks EXCEPT ![s] = [prom |-> "resolved", st |-> "open"]]
  /\ wsOpen' = TRUE
  /\ hw' = ApplyAll(hw, FlushOrder(wsMessageQueue))
  /\ wsMessageQueue' = <<>>
  /\ microQ' = waiters[s]
  /\ waiters' = [waiters EXCEPT ![s] = <<>>]
  /\ last' = Ev("onopen", "", "none", "none", <<>>,
                [k \in 1..Len(wsMessageQueue) |-> Wire(FlushOrder(wsMessageQueue)[k], "ws")])
  /\ UNCHANGED <<opts, budget, activeRoom, roomStates, roomOrder, roomConnections, phase,
                 gridState, dirtyIndices, storage, activeUtility, utilPending,
                 timers, pace, posts, wsReadyPromise, latest, nRequests>>

\* ws.onerror of socket s: reject the attempt's promise (no effect on a
\* settled one); the socket then closes
SocketError(s) ==
  /\ microQ = <<>>
  /\ s \in 1..Len(socks)
  /\ socks[s].st \in {"connecting", "open"}
  /\ socks' = [socks EXCEPT ![s] =
                 [prom |-> IF @.prom = "pending" THEN "rejected" ELSE @.prom,
                  st |-> "errored"]]
  /\ wsOpen' = FALSE
  /\ wsReadyPromise' = 0
  /\ microQ' = waiters[s]
  /\ waiters' = [waiters EXCEPT ![s] = <<>>]
  /\ last' = Ev("event", "", "none", "none", <<>>, <<>>)
  /\ UNCHANGED <<opts, budget, activeRoom, roomStates, roomOrder, roomConnections, phase,
                 gridState, dirtyIndices, storage, activeUtility, utilPending,
                 timers, pace, posts, wsMessageQueue, hw, latest, nRequests>>

\* ws.onclose of socket s (after an error, after an open, or of a socket
\* that never opened): the promise of the attempt is left as it is
SocketClose(s) ==
  /\ microQ = <<>>
  /\ s \in 1..Len(socks)
  /\ socks[s].st # "closed"
  /\ socks' = [socks EXCEPT ![s].st = "closed"]
  /\ wsOpen' = FALSE
  /\ wsReadyPromise' = 0
  /\ last' = Ev("event", "", "none", "none", <<>>, <<>>)
  /\ UNCHANGED <<opts, budget, activeRoom, roomStates, roomOrder, roomConnections, phase,
                 gridState, dirtyIndices, storage, activeUtility, utilPending,
                 timers, microQ, pace, posts, waiters, wsMessageQueue, hw,
                 latest, nRequests>>

\* ------------------------------------------------ connections and messages

OnConnect(r, conn) ==
  /\ microQ = <<>>
  /\ r \in Known
  /\ conn \notin roomConnections[r]
  /\ roomConnections' = [roomConnections EXCEPT ![r] = @ \cup {conn}]
  /\ last' = Ev("event", "", "none", "none", <<>>, <<>>)
  /\ UNCHANGED <<opts, budget, activeRoom, roomStates, roomOrder, phase, gridState,
                 dirtyIndices, storage, activeUtility, utilPending, timers,
                 microQ, pace, posts, waiters, socks, wsOpen, wsReadyPromise,
                 wsMessageQueue, hw, latest, nRequests>>

OnClose(r, conn) ==
  /\ microQ = <<>>
  /\ conn \in roomConnections[r]
  /\ roomConnections' = [roomConnections EXCEPT ![r] = @ \ {conn}]
  /\ last' = Ev("event", "", "none", "none", <<>>, <<>>)
  /\ UNCHANGED <<opts, budget, activeRoom, roomStates, roomOrder, phase, gridState,
                 dirtyIndices, storage, activeUtility, utilPending, timers,
                 microQ, pace, posts, waiters, socks, wsOpen, wsReadyPromise,
                 wsMessageQueue, hw, latest, nRequests>>

\* the guard of the draw branch of onMessage on the coordinates
InGrid(x, y) == x >= 0 /\ x < GRID_WIDTH /\ y >= 0 /\ y < GRID_HEIGHT

\* An inbound message as onMessage sees it. form: "draw" (valid JSON of type
\* 'draw' with x and y numbers and color a string), "notJson", "unknownType",
\* or a draw with a field missing or of another type; x, y, color are the
\* fields where they are present and well typed.
DrawMessage(x, y, color) == [color |-> color, x |-> x, y |-> y, form |-> "draw"]
MalformedForms == {"notJson", "unknownType", "xMissing", "colorNotString"}
Malformed(form) == [color |-> Red, x |-> 0, y |-> 0, form |-> form]

\* the draw branch is taken whatever the type and the fields of the message
IsDrawUnchecked(m) == InGrid(m.x, m.y)

\* data.type === 'draw' && typeof data.x === 'number' && typeof data.y ===
\* 'number' && typeof data.color === 'string' && x and y in range
IsDraw(m) == m.form = "draw" /\ InGrid(m.x, m.y)

\* onMessage for a message that is a draw, or that no branch takes (JSON.parse
\* throws into the catch, or no condition of the if-chain holds); "accepted"
\* includes the gridUpdate broadcast, "dropped" broadcasts nothing
OnMessage(r, m) ==
  /\ microQ = <<>>
  /\ roomConnections[r] # {}
  /\ nRequests < budget.requests
  /\ nRequests' = nRequests + 1
  /\ IF IsDraw(m)
       THEN LET index == m.y * GRID_WIDTH + m.x
                grid == [gridState[r] EXCEPT ![index + 1] = m.color]
            IN  /\ gridState' = [gridState EXCEPT ![r] = grid]
                /\ dirtyIndices' = [dirtyIndices EXCEPT ![r] = SetAdd(@, index)]
                /\ roomStates' = [roomStates EXCEPT ![r] = grid]
                /\ storage' = [storage EXCEPT ![r] = grid]
                /\ latest' = [latest EXCEPT ![r][index + 1] = m.color]
                /\ last' = Received(Ev("draw", r, "accepted", "none", <<>>, <<>>), m)
       ELSE /\ last' = Received(Ev("draw", r, "dropped", "none", <<>>, <<>>), m)
            /\ UNCHANGED <<gridState, dirtyIndices, roomStates, storage, latest>>
  /\ UNCHANGED <<opts, budget, activeRoom, roomOrder, roomConnections, phase, activeUtility,
                 utilPending, timers, microQ, pace, posts, waiters, socks,
                 wsOpen, wsReadyPromise, wsMessageQueue, hw>>

\* onMessage, {type: 'draw', x, y, color}
OnMessageDraw(r, x, y, color) == OnMessage(r, DrawMessage(x, y, color))

\* onMessage, a message that is not JSON, of an unknown type, or a draw with
\* a missing or wrongly typed field
OnMessageMalformed(r, form) == OnMessage(r, Malformed(form))

\* onMessage, {type: 'clear'}: up to the await inside wled.clearAll()
OnMessageClear(r) ==
  /\ microQ = <<>>
  /\ roomConnections[r] # {}
  /\ nRequests < budget.requests
  /\ nRequests' = nRequests + 1
  /\ gridState' = [gridState EXCEPT ![r] = createEmptyGrid]
  /\ roomStates' = [roomStates EXCEPT ![r] = createEmptyGrid]
  /\ storage' = [storage EXCEPT ![r] = createEmptyGrid]
  /\ latest' = [latest EXCEPT ![r] = createEmptyGrid]
  /\ LET U == EnsureStart([Cur EXCEPT !.started = "clearAll"],
                          Call("clearMsg", r, "ensure", 0, <<>>, FALSE, NoState, NoMsg))
     IN  /\ Commit(U)
         /\ last' = Scheduled(Ev("clear", r, "none", U.started, U.drained, U.emitted), U)
  /\ UNCHANGED <<opts, budget, activeRoom, roomOrder, roomConnections, phase, dirtyIndices,
                 activeUtility, utilPending>>

\* ------------------------------------------------------------ room registry

\* the id is compared with the room that is active at start-up
AlreadyActiveAtStart(roomId) == roomId = "default"

\* roomId === GridServer.activeRoom
AlreadyActive(roomId) == roomId = activeRoom

\* the room is looked up in serverInstances, set before onStart has loaded it
RoomKnownByInstance(roomId) == phase[roomId] # "new"

\* GridServer.roomStates.get(roomId) is defined
RoomKnown(roomId) == roomStates[roomId] # NoState

\* setActiveRoom(roomId), called by the switch-room endpoint of any running
\* instance: up to the await of wled.clearAll()
SetActiveRoomBy(roomId, request) ==
  /\ microQ = <<>>
  /\ Known # {}
  /\ nRequests < budget.requests
  /\ nRequests' = nRequests + 1
  /\ IF AlreadyActive(roomId)
       THEN /\ last' = Received(Ev("setActiveRoom", roomId, "true", "none", <<>>, <<>>),
                                 request)
            /\ UNCHANGED <<activeRoom, timers, microQ, pace, posts, waiters, socks,
                           wsOpen, wsReadyPromise, wsMessageQueue, hw>>
     ELSE IF ~RoomKnown(roomId)
       THEN /\ last' = Received(Ev("setActiveRoom", roomId, "false", "none", <<>>, <<>>),
                                 request)
            /\ UNCHANGED <<activeRoom, timers, microQ, pace, posts, waiters, socks,
                           wsOpen, wsReadyPromise, wsMessageQueue, hw>>
     ELSE /\ activeRoom' = roomId
          /\ LET U == EnsureStart([Cur EXCEPT !.started = "clearAll"],
                                  Call("clearSwitch", roomId, "ensure", 0, <<>>, FALSE,
                                       roomStates[roomId], NoMsg))
             IN  /\ Commit(U)
                 /\ last' = Received(Ev("setActiveRoom", roomId, "pending", U.started,
                                         U.drained, U.emitted), request)
  /\ UNCHANGED <<opts, budget, roomStates, roomOrder, roomConnections, phase, gridState,
                 dirtyIndices, storage, activeUtility, utilPending, latest>>

SetActiveRoom(roomId) == SetActiveRoomBy(roomId, <<>>)

\* an entry of getRoomsInfo is marked active
IsActiveEntryByUsers(roomId) == roomConnections[roomId] # {}

\* isActive: roomId === GridServer.activeRoom
IsActiveEntry(roomId) == roomId = activeRoom

\* rooms with fewer connections sort first
CompareRoomsAscending(a, b) ==
  IF a.isActive THEN -1
  ELSE IF b.isActive THEN 1
  ELSE a.connections - b.connections

\* the comparator of the sort in getRoomsInfo
CompareRooms(a, b) ==
  IF a.isActive THEN -1
  ELSE IF b.isActive THEN 1
  ELSE b.connections - a.connections

\* Array.prototype.sort on a short array: a stable insertion sort. x goes
\* behind the last element it does not sort before.
RECURSIVE InsertSorted(_, _, _)
InsertSorted(sorted, x, k) ==
  IF k = 0 \/ CompareRooms(sorted[k], x) <= 0
    THEN SubSeq(sorted, 1, k) \o <<x>> \o SubSeq(sorted, k + 1, Len(sorted))
    ELSE InsertSorted(sorted, x, k - 1)

RECURSIVE SortRooms(_, _)
SortRooms(sorted, rest) ==
  IF rest = <<>> THEN sorted
  ELSE SortRooms(InsertSorted(sorted, Head(rest), Len(sorted)), Tail(rest))

\* getRoomsInfo(): one entry per key of roomConnections, sorted
getRoomsInfo ==
  SortRooms(<<>>, [k \in 1..Len(roomOrder) |->
                     [isActive |-> IsActiveEntry(roomOrder[k]),
                      connections |-> Cardinality(roomConnections[roomOrder[k]]),
                      id |-> roomOrder[k]]])

\* ---------------------------------------------------------------- utilities

\* executeUtility calls pending at once, per room
MaxUtilityPending == 1

\* the grid a utility returns: one coloured cell
UtilityGrid ==
  [i \in 1..TOTAL_CELLS |->
     IF i = 1 THEN <<"#", "2", "2", "C", "5", "5", "E">> ELSE Undefined]

\* executeUtility up to `await utility.execute()`
ExecuteUtilityBy(r, e) ==
  /\ microQ = <<>>
  /\ r \in Known
  /\ utilPending[r] < MaxUtilityPending
  /\ nRequests < budget.requests
  /\ nRequests' = nRequests + 1
  /\ utilPending' = [utilPending EXCEPT ![r] = @ + 1]
  /\ last' = e
  /\ UNCHANGED <<opts, budget, activeRoom, roomStates, roomOrder, roomConnections, phase,
                 gridState, dirtyIndices, storage, activeUtility, timers, microQ,
                 pace, posts, waiters, socks, wsOpen, wsReadyPromise,
                 wsMessageQueue, hw, latest>>

ExecuteUtility(r) == ExecuteUtilityBy(r, Ev("event", "", "none", "none", <<>>, <<>>))

\* utility.execute() settled: on success the grid-update callback replaces
\* the cells, marks every cell dirty, broadcasts and saves
UtilityResult(r, success) ==
  /\ microQ = <<>>
  /\ utilPending[r] > 0
  /\ utilPending' = [utilPending EXCEPT ![r] = @ - 1]
  /\ IF success
       THEN /\ gridState' = [gridState EXCEPT ![r] = UtilityGrid]
            /\ dirtyIndices' = [dirtyIndices EXCEPT ![r] = MarkAllDirty(@)]
            /\ storage' = [storage EXCEPT ![r] = UtilityGrid]
            /\ latest' = [latest EXCEPT ![r] = UtilityGrid]
            /\ activeUtility' = [activeUtility EXCEPT ![r] = "github"]
       ELSE UNCHANGED <<gridState, dirtyIndices, storage, latest, activeUtility>>
  /\ last' = Ev("event", "", "none", "none", <<>>, <<>>)
  /\ UNCHANGED <<opts, budget, activeRoom, roomStates, roomOrder, roomConnections, phase,
                 timers, microQ, pace, posts, waiters, socks, wsOpen,
                 wsReadyPromise, wsMessageQueue, hw, nRequests>>

\* stopActiveUtility
StopUtilityBy(r, e) ==
  /\ microQ = <<>>
  /\ r \in Known
  /\ activeUtility' = [activeUtility EXCEPT ![r] = "null"]
  /\ last' = e
  /\ UNCHANGED <<opts, budget, activeRoom, roomStates, roomOrder, roomConnections, phase,
                 gridState, dirtyIndices, storage, utilPending, timers, microQ,
                 pace, posts, waiters, socks, wsOpen, wsReadyPromise,
                 wsMessageQueue, hw, latest, nRequests>>

StopUtility(r) == StopUtilityBy(r, Ev("event", "", "none", "none", <<>>, <<>>))

\* ------------------------------------------------------------ admin requests

\* AUTH_CONFIG.COOKIE_NAME
COOKIE_NAME == "led_grid_admin"

\* A cookie header is the sequence of its ';'-separated cookies, each the
\* sequence of its '='-separated parts, trimmed; a request without a cookie
\* header, or with an empty one, carries <<>>. A value that may be undefined
\* (a cookie looked up, process.env.ADMIN_SECRET) is <<>> when undefined and
\* the one-element sequence of the string otherwise.
RECURSIVE parseCookies(_, _)
parseCookies(cookieHeader, k) ==
  IF k = 0 THEN <<>>
  ELSE LET parts == cookieHeader[k]
       IN  IF Len(parts) >= 2 /\ parts[1] = COOKIE_NAME /\ parts[2] # ""
             THEN <<parts[2]>>
             ELSE parseCookies(cookieHeader, k - 1)

\* isAdminAuthorized: adminCookie === AUTH_CONFIG.ADMIN_SECRET
isAdminAuthorized(cookieHeader) ==
  IF cookieHeader = <<>> THEN FALSE
  ELSE parseCookies(cookieHeader, Len(cookieHeader)) = opts.adminSecret

AdminPaths == {"rooms", "switch-room", "list", "execute", "stop"}

\* onRequest of the instance of room r for an admin or utility endpoint
OnRequest(r, path, cookieHeader, roomId) ==
  LET request == [path |-> path, cookie |-> cookieHeader]
      ok == Received(Ev("onRequest", r, "200", "none", <<>>, <<>>), request)
  IN  IF ~isAdminAuthorized(cookieHeader)
        THEN /\ microQ = <<>>
             /\ r \in Known
             /\ nRequests < budget.requests
             /\ nRequests' = nRequests + 1
             /\ last' = Received(Ev("onRequest", r, "401", "none", <<>>, <<>>), request)
             /\ UNCHANGED <<opts, budget, activeRoom, roomStates, roomOrder,
                            roomConnections, phase, gridState, dirtyIndices, storage,
                            activeUtility, utilPending, timers, microQ, pace, posts,
                            waiters, socks, wsOpen, wsReadyPromise, wsMessageQueue,
                            hw, latest>>
      ELSE IF path = "switch-room" THEN r \in Known /\ SetActiveRoomBy(roomId, request)
      ELSE IF path = "execute" THEN ExecuteUtilityBy(r, ok)
      ELSE IF path = "stop" THEN StopUtilityBy(r, ok)
      ELSE /\ microQ = <<>>
           /\ r \in Known
           /\ nRequests < budget.requests
           /\ nRequests' = nRequests + 1
           /\ last' = ok
           /\ UNCHANGED <<opts, budget, activeRoom, roomStates, roomOrder,
                          roomConnections, phase, gridState, dirtyIndices, storage,
                          activeUtility, utilPending, timers, microQ, pace, posts,
                          waiters, socks, wsOpen, wsReadyPromise, wsMessageQueue,
                          hw, latest>>

\* ------------------------------------------------------------ specification

Next ==
  \/ \E r \in RoomIds : OnStartBegin(r)
  \/ \E r \in RoomIds : OnStartLoad(r)
  \/ \E r \in RoomIds : OnStartLoadFails(r)
  \/ \E r \in RoomIds : TimerFire(r)
  \/ \E i \in 1..Len(pace) : PaceDone(i)
  \/ \E i \in 1..Len(posts), outcome \in {"ok", "bad", "reject"} : HttpResponse(i, outcome)
  \/ RunMicrotask
  \/ \E s \in 1..Len(socks) : SocketOpen(s)
  \/ \E s \in 1..Len(socks) : SocketError(s)
  \/ \E s \in 1..Len(socks) : SocketClose(s)
  \/ \E r \in RoomIds, conn \in ConnIds : OnConnect(r, conn)
  \/ \E r \in RoomIds, conn \in ConnIds : OnClose(r, conn)
  \/ \E r \in RoomIds, x \in 0..GRID_WIDTH, y \in 0..GRID_HEIGHT, color \in DrawColors :
        OnMessageDraw(r, x, y, color)
  \/ \E r \in RoomIds, form \in MalformedForms : OnMessageMalformed(r, form)
  \/ \E r \in RoomIds : OnMessageClear(r)
  \/ \E roomId \in RoomIds : SetActiveRoom(roomId)
  \/ \E r \in RoomIds : ExecuteUtility(r)
  \/ \E r \in RoomIds, success \in BOOLEAN : UtilityResult(r, success)
  \/ \E r \in RoomIds : StopUtility(r)

Spec == Init /\ [][Next]_vars


\* the rooms with a second connect attempt and a single request
SyncSockets == 2
SyncRequests == 1

InitSync ==
  Constructed(wled, [sockets |-> SyncSockets, requests |-> SyncRequests,
                     history |-> FALSE])

SpecSync == InitSync /\ [][Next]_vars


\* ------------------------------------------- the rooms behind the admin check

\* one request, to any endpoint, with any of the cookie headers below, on a
\* server with and without ADMIN_SECRET set
AdminSockets == 1
AdminRequests == 1
Secret == "s3cret"

CookieHeaders ==
  { <<>>,
    <<<<COOKIE_NAME, Secret>>>>,
    <<<<COOKIE_NAME, "wrong">>>>,
    <<<<COOKIE_NAME>>>>,
    <<<<"theme", "dark">>>>,
    <<<<"theme", "dark">>, <<COOKIE_NAME, Secret>>>>,
    <<<<COOKIE_NAME, "wrong">>, <<"theme", "dark">>>> }

InitAdmin ==
  \E secret \in {<<>>, <<Secret>>} :
    Constructed([gridWidth |-> wled.gridWidth, gridHeight |-> wled.gridHeight,
                 useWebSocket |-> wled.useWebSocket, largeBatch |-> wled.largeBatch,
                 wsLimit |-> wled.wsLimit, httpLimit |-> wled.httpLimit,
                 adminSecret |-> secret],
                [sockets |-> AdminSockets, requests |-> AdminRequests, history |-> FALSE])

NextAdmin ==
  \/ \E r \in RoomIds : OnStartBegin(r)
  \/ \E r \in RoomIds : OnStartLoad(r)
  \/ \E r \in RoomIds : OnStartLoadFails(r)
  \/ \E r \in RoomIds : TimerFire(r)
  \/ \E i \in 1..Len(pace) : PaceDone(i)
  \/ \E i \in 1..Len(posts), outcome \in {"ok", "bad", "reject"} : HttpResponse(i, outcome)
  \/ RunMicrotask
  \/ \E s \in 1..Len(socks) : SocketOpen(s)
  \/ \E s \in 1..Len(socks) : SocketError(s)
  \/ \E s \in 1..Len(socks) : SocketClose(s)
  \/ \E r \in RoomIds, conn \in ConnIds : OnConnect(r, conn)
  \/ \E r \in RoomIds, x \in 0..(GRID_WIDTH - 1), y \in 0..(GRID_HEIGHT - 1) :
        OnMessageDraw(r, x, y, Red)
  \/ \E r \in RoomIds : OnMessageClear(r)
  \/ \E r \in RoomIds, success \in BOOLEAN : UtilityResult(r, success)
  \/ \E r, roomId \in RoomIds, path \in AdminPaths, cookieHeader \in CookieHeaders :
        OnRequest(r, path, cookieHeader, roomId)

SpecAdmin == InitAdmin /\ [][NextAdmin]_vars

\* ------------------------------------------- the functions on any arguments

\* a call of a function that touches no state: the step records its
\* arguments and what it returned
Applied(e, arguments) ==
  /\ last' = Received(e, arguments)
  /\ UNCHANGED <<opts, budget, activeRoom, roomStates, roomOrder, roomConnections, phase,
                 gridState, dirtyIndices, storage, activeUtility, utilPending,
                 timers, microQ, pace, posts, waiters, socks, wsOpen,
                 wsReadyPromise, wsMessageQueue, hw, latest, nRequests>>

\* the entries getRoomsInfo pushes before it sorts, for up to MaxListed rooms
\* in insertion order (the id of a room is its position), every connection
\* count up to MaxListedConnections, and at most one room active
MaxListed == 3
MaxListedConnections == 2

RoomLists ==
  UNION { { [k \in 1..n |-> [isActive |-> (k = a), connections |-> c[k], id |-> k]] :
              c \in [1..n -> 0..MaxListedConnections], a \in 0..n } :
          n \in 0..MaxListed }

\* getRoomsInfo() on the entries rooms
ListRooms(rooms) ==
  Applied(Ev("getRoomsInfo", "", SortRooms(<<>>, rooms), "none", <<>>, <<>>), rooms)

\* computeIndex on grids of up to MaxSide by MaxSide and coordinates from one
\* before the grid to one past the largest grid
MaxSide == 3

ComputeIndex(x, y, width, height, serpentine, orientation) ==
  LET arguments == [x |-> x, y |-> y, width |-> width, height |-> height,
                    serpentine |-> serpentine, orientation |-> orientation]
  IN  IF computeIndexThrows(x, y, width, height)
        THEN Applied(Ev("computeIndex", "", "throws", "none", <<>>, <<>>), arguments)
        ELSE Applied(Ev("computeIndex", "", "returned", "none", <<>>,
                        <<computeIndex(x, y, width, height, serpentine, orientation)>>),
                     arguments)

\* normalizeHex on every string of up to MaxColorLength characters over
\* ColorAlphabet and on the strings of ColorStrings, and on the channels of
\* Channels (in tenths)
MaxColorLength == 7
ColorAlphabet == {"#", "a", "z"}
HashAbc == <<"#", "a", "b", "c">>
ColorStrings ==
  UNION { [1..n -> ColorAlphabet] : n \in 0..MaxColorLength }
    \cup { HashAbc, Bad, Red, Green, <<"a", "b", "c">>,
           <<"#", "A", "b", "C", "d", "E", "f">>, <<"0", "9", "a", "F", "c", "0">>,
           <<"#", "1", "2", "3", "4", "5">>, <<"1", "2", "3", "4", "5", "6", "7">>,
           <<"g", "0", "0", "0", "0", "0">>, <<" ", "a", "a", "a", "a", "a", "a">>,
           <<"#", "#", "a", "a", "a", "a", "a", "a">> }
Channels == {0 - 300, 0 - 6, 0 - 5, 0 - 4, 0, 4, 5, 100, 104, 105, 1275,
             2544, 2545, 2550, 2554, 2555, 3000}

NormalizeHex(color) ==
  IF normalizeHexThrows(color)
    THEN Applied(Ev("normalizeHex(string)", "", "throws", "none", <<>>, <<>>), color)
    ELSE Applied(Ev("normalizeHex(string)", "", "returned", "none", <<>>,
                    <<normalizeHex(color)>>), color)

NormalizeHexRgb(r, g, b) ==
  Applied(Ev("normalizeHex(rgb)", "", "returned", "none", <<>>,
             <<normalizeHexRgb(r, g, b)>>), <<r, g, b>>)

\* every call is taken from the constructed state
NextFunctions ==
  \/ last.op = "init" /\ \E color \in ColorStrings : NormalizeHex(color)
  \/ last.op = "init" /\ \E r, g, b \in Channels : NormalizeHexRgb(r, g, b)
  \/ last.op = "init" /\ \E rooms \in RoomLists : ListRooms(rooms)
  \/ last.op = "init" /\
       \E x, y \in (0 - 1)..MaxSide, width, height \in 0..MaxSide,
          serpentine \in BOOLEAN, orientation \in Orientations :
          ComputeIndex(x, y, width, height, serpentine, orientation)

SpecFunctions == Init /\ [][NextFunctions]_vars

\* -------------------------------------------- the client under whole batches

\* The deployed grid (GRID_WIDTH = GRID_HEIGHT = 16 * 3) with the byte limits
\* of the client, and two grids scaled down with it: one whose limits hold a
\* few pairs, one whose limits hold less than one pair.
DEPLOYED_WIDTH == 16 * 3
DEPLOYED_HEIGHT == 16 * 3
ScaledCells == 12
ScaledLargeBatch == 3
ScaledWsLimit == 75
ScaledHttpLimit == 100
TightWsLimit == 60
TightHttpLimit == 61
ChunkCalls == 2
DeployedCalls == 1
ChunkSockets == 1

ChunkOptions ==
  { [gridWidth |-> DEPLOYED_WIDTH, gridHeight |-> DEPLOYED_HEIGHT, useWebSocket |-> w,
     largeBatch |-> LARGE_BATCH_PIXEL_THRESHOLD, wsLimit |-> WEBSOCKET_LIMIT,
     httpLimit |-> HTTP_LIMIT] : w \in BOOLEAN }
  \cup
  { [gridWidth |-> ScaledCells, gridHeight |-> 1, useWebSocket |-> w,
     largeBatch |-> ScaledLargeBatch, wsLimit |-> l[1], httpLimit |-> l[2]] :
      w \in BOOLEAN,
      l \in {<<ScaledWsLimit, ScaledHttpLimit>>, <<TightWsLimit, TightHttpLimit>>} }

\* n pixel updates for consecutive indices, as updateLED drains them
Pixels(from, n) ==
  [k \in 1..n |-> <<from + k - 1, toHex(IF k % 2 = 0 THEN Red ELSE Green)>>]

\* the batches the client is called with: on the deployed grid around the
\* large-batch threshold and around the byte limits, on the scaled grids
\* every length up to twice the threshold, with indices of one and two digits,
\* indices outside the grid and a colour normalizeHex refuses, on any other
\* grid its first pixel
Batches ==
  IF opts.gridWidth = DEPLOYED_WIDTH
    THEN { Pixels(0, LARGE_BATCH_PIXEL_THRESHOLD),
           Pixels(0, LARGE_BATCH_PIXEL_THRESHOLD + 1),
           Pixels(DEPLOYED_WIDTH * DEPLOYED_HEIGHT - 120, 125),
           Pixels(990, 400) }
  ELSE IF opts.gridWidth = ScaledCells
    THEN { Pixels(ScaledCells - 4, n) : n \in 1..(2 * ScaledLargeBatch) }
         \cup { <<<<0 - 1, toHex(Red)>>>> \o Pixels(ScaledCells - 3, 3),
                <<<<0, toHex(Red)>>, <<1, Bad>>>>,
                <<<<ScaledCells, toHex(Red)>>, <<0 - 1, Bad>>>> }
  ELSE { Pixels(0, 1) }

\* updateLED of the active room from its drain on, with the drained batch
\* given: wled.sendPixels(updates).then(retryFn).catch(retryFn)
SendBatch(updates) ==
  /\ microQ = <<>>
  /\ nRequests < budget.requests
  /\ nRequests' = nRequests + 1
  /\ LET U == AfterSendCall(SendPixelsStart(Cur, activeRoom, updates), activeRoom)
     IN  /\ Commit(U)
         /\ last' = Scheduled(Ev("sendPixels", activeRoom, "none", U.started, updates, U.emitted), U)
  /\ UNCHANGED <<opts, budget, activeRoom, roomStates, roomOrder, roomConnections, phase,
                 gridState, dirtyIndices, storage, activeUtility, utilPending, latest>>

InitChunk ==
  \E o \in ChunkOptions :
    Constructed(o, [sockets |-> ChunkSockets,
                    requests |-> IF o.gridWidth = DEPLOYED_WIDTH
                                   THEN DeployedCalls ELSE ChunkCalls,
                    history |-> TRUE])

NextChunkSpec ==
  \/ \E updates \in Batches : SendBatch(updates)
  \/ \E i \in 1..Len(pace) : PaceDone(i)
  \/ \E i \in 1..Len(posts), outcome \in {"ok", "bad", "reject"} : HttpResponse(i, outcome)
  \/ RunMicrotask
  \/ \E s \in 1..Len(socks) : SocketOpen(s)
  \/ \E s \in 1..Len(socks) : SocketError(s)
  \/ \E s \in 1..Len(socks) : SocketClose(s)

SpecChunk == InitChunk /\ [][NextChunkSpec]_vars

\* the session of a client on a strip of one LED, over several connect
\* attempts and calls
SessionSockets == 3
SessionCalls == 3

InitSession ==
  Constructed([wled EXCEPT !.gridWidth = 1, !.gridHeight = 1],
              [sockets |-> SessionSockets, requests |-> SessionCalls,
               history |-> FALSE])

SpecSession == InitSession /\ [][NextChunkSpec]_vars

\* the message queue of a client whose limits hold one pair per chunk, over
\* a second connect attempt
QueueSockets == 2
QueueCalls == 2

InitQueue ==
  Constructed([gridWidth |-> ScaledCells, gridHeight |-> 1, useWebSocket |-> TRUE,
               largeBatch |-> ScaledLargeBatch, wsLimit |-> TightWsLimit,
               httpLimit |-> TightHttpLimit],
              [sockets |-> QueueSockets, requests |-> QueueCalls, history |-> FALSE])

SpecQueue == InitQueue /\ [][NextChunkSpec]_vars

\* ------------------------------------- the rooms with batches of two chunks

\* every chunk holds one pixel; two draws and a clear
ClearSockets == 1
ClearRequests == 3

InitClear ==
  Constructed([wled EXCEPT !.wsLimit = TightWsLimit, !.httpLimit = TightHttpLimit],
              [sockets |-> ClearSockets, requests |-> ClearRequests, history |-> FALSE])

NextClear ==
  \/ \E r \in RoomIds : OnStartBegin(r)
  \/ \E r \in RoomIds : OnStartLoad(r)
  \/ \E r \in RoomIds : TimerFire(r)
  \/ \E i \in 1..Len(pace) : PaceDone(i)
  \/ \E i \in 1..Len(posts), outcome \in {"ok", "bad", "reject"} : HttpResponse(i, outcome)
  \/ RunMicrotask
  \/ \E s \in 1..Len(socks) : SocketOpen(s)
  \/ \E s \in 1..Len(socks) : SocketError(s)
  \/ \E s \in 1..Len(socks) : SocketClose(s)
  \/ \E r \in RoomIds, conn \in ConnIds : OnConnect(r, conn)
  \/ \E r \in RoomIds, x \in 0..(GRID_WIDTH - 1), y \in 0..(GRID_HEIGHT - 1) :
        OnMessageDraw(r, x, y, Red)
  \/ \E r \in RoomIds : OnMessageClear(r)

SpecClear == InitClear /\ [][NextClear]_vars

\* --------------------------------------- one room whose cells are repainted

\* every chunk holds one pixel; a cell is drawn red, then green
OrderSockets == 3
OrderRequests == 4

InitOrder ==
  Constructed([wled EXCEPT !.wsLimit = TightWsLimit, !.httpLimit = TightHttpLimit],
              [sockets |-> OrderSockets, requests |-> OrderRequests, history |-> FALSE])

NextOrder ==
  \/ OnStartBegin("default")
  \/ OnStartLoad("default")
  \/ TimerFire("default")
  \/ \E i \in 1..Len(pace) : PaceDone(i)
  \/ \E i \in 1..Len(posts), outcome \in {"ok", "bad", "reject"} : HttpResponse(i, outcome)
  \/ RunMicrotask
  \/ \E s \in 1..Len(socks) : SocketOpen(s)
  \/ \E s \in 1..Len(socks) : SocketError(s)
  \/ \E s \in 1..Len(socks) : SocketClose(s)
  \/ \E conn \in ConnIds : OnConnect("default", conn)
  \/ \E x \in 0..(GRID_WIDTH - 1), y \in 0..(GRID_HEIGHT - 1) :
        /\ latest["default"][y * GRID_WIDTH + x + 1] = Undefined
        /\ OnMessageDraw("default", x, y, Red)
  \/ \E x \in 0..(GRID_WIDTH - 1), y \in 0..(GRID_HEIGHT - 1) :
        /\ latest["default"][y * GRID_WIDTH + x + 1] = Red
        /\ OnMessageDraw("default", x, y, Green)

SpecOrder == InitOrder /\ [][NextOrder]_vars

\* ------------------------------------------------------------- observations

RECURSIVE Concat(_)
Concat(seqs) == IF seqs = <<>> THEN <<>> ELSE Head(seqs) \o Concat(Tail(seqs))

\* every asynchronous call that is suspended at an await
Suspended == microQ \o pace \o posts \o Concat(waiters)

\* sendPixels and clearAll calls that have started and not settled (a call
\* at "resume" is setActiveRoom after its clearAll settled)
HardwareWrites == SelectSeq(Suspended, LAMBDA c : c.pc # "resume")

\* clearAll calls of setActiveRoom(r) that have not settled
SwitchClearPending(r) ==
  \E k \in 1..Len(HardwareWrites) :
    HardwareWrites[k].kind = "clearSwitch" /\ HardwareWrites[k].room = r

\* sendPixels calls of room r that have not settled
SendsOf(r) == Len(SelectSeq(Suspended, LAMBDA c : c.kind = "send" /\ c.room = r))

\* sync-loop iterations of room r: pending on a timer or awaiting their send
Chains(r) == timers[r] + SendsOf(r)

\* the step just taken drained the dirty set of its room
Drained == last.op \in {"onStart", "updateLED", "switchResume"} /\ last.started # "none"

\* --------------------------------------------------------------- properties

\* C1: in every reachable state at most one hardware write (a sendPixels or
\* a clearAll call that has started and not settled) is in flight
C1_OneHardwareWriteInFlight == Len(HardwareWrites) <= 1

\* C2: every pixel chunk put on the wire carries cells of the room that is
\* active at the moment the chunk is sent
C2_ChunksFromActiveRoom ==
  \A k \in 1..Len(last.emitted) :
    last.emitted[k].type = "pixels" => last.emitted[k].room = activeRoom

\* C3: no updateLED of room B starts a send while the clearAll awaited by
\* setActiveRoom(B) is still pending
C3_NoSendBeforeSwitchClear ==
  (last.op \in {"onStart", "updateLED"} /\ last.started = "sendPixels")
    => ~SwitchClearPending(last.room)

\* C4: a drain emits exactly one update per drained cell, and its colour is
\* the colour of the last accepted write to that cell
C4_LastWriterWins ==
  Drained =>
    /\ \A j, k \in 1..Len(last.drained) :
         last.drained[j][1] = last.drained[k][1] => j = k
    /\ \A k \in 1..Len(last.drained) :
         last.drained[k][2] = toHex(CellOf(latest[last.room], last.drained[k][1]))

\* C5: each cell of each room holds the colour of the most recent accepted
\* write to that cell
C5_CellsHoldLatestWrite == \A r \in RoomIds : gridState[r] = latest[r]

\* C6: setActiveRoom(id) with id the active room returns true, issues no
\* hardware clear or write, and leaves the active room, every room's cells
\* and dirty set, the display and every pending call unchanged
C6_SameRoomIsNoOp ==
  [][(last'.op = "setActiveRoom" /\ last'.room = activeRoom)
       => /\ last'.ret = "true"
          /\ last'.started = "none"
          /\ last'.emitted = <<>>
          /\ UNCHANGED <<activeRoom, roomStates, gridState, dirtyIndices, storage,
                         hw, timers, microQ, pace, posts, waiters, socks, wsOpen,
                         wsReadyPromise, wsMessageQueue>>]_vars

\* C6 witness: setActiveRoom was just called with the active room's id
C6_Witness ==
  /\ last.op = "setActiveRoom" /\ last.room = activeRoom /\ last.ret = "true"
  /\ phase["r1"] = "started" /\ HardwareWrites # <<>>

\* C7: setActiveRoom(id) for an id without a known room state, not the
\* active id, returns false, issues no hardware clear or write, and leaves
\* the active room, every room's cells and dirty set and the display unchanged
C7_UnknownRoomIsRefused ==
  [][(last'.op = "setActiveRoom" /\ last'.room # activeRoom
        /\ roomStates[last'.room] = NoState)
       => /\ last'.ret = "false"
          /\ last'.started = "none"
          /\ last'.emitted = <<>>
          /\ UNCHANGED <<activeRoom, roomStates, gridState, dirtyIndices, storage,
                         hw, timers, microQ, pace, posts, waiters, socks, wsOpen,
                         wsReadyPromise, wsMessageQueue>>]_vars

\* C7 witness: setActiveRoom was just refused for a room whose onStart has
\* registered the instance but not yet its state
C7_Witness ==
  /\ last.op = "setActiveRoom" /\ last.ret = "false"
  /\ last.room # activeRoom /\ roomStates[last.room] = NoState
  /\ phase[last.room] = "loading"

\* C8: when setActiveRoom(B) resumes after the clear and B is still active,
\* a send carrying an update with B's current colour for every cell starts
C8_SwitchRepaintsEveryCell ==
  (last.op = "switchResume" /\ last.room = activeRoom)
    => /\ last.started = "sendPixels"
       /\ \A i \in Cells : \E k \in 1..Len(last.drained) :
            last.drained[k] = <<i, toHex(CellOf(gridState[last.room], i))>>

\* C9: among the entries of getRoomsInfo at most one is active
C9_AtMostOneActive ==
  Cardinality({k \in 1..Len(getRoomsInfo) : getRoomsInfo[k].isActive}) <= 1

\* C9 witness: two rooms are listed, both with a connection, after a switch
\* to r1 and with exactly one of them active
C9_Witness ==
  /\ Len(getRoomsInfo) = 2
  /\ activeRoom = "r1"
  /\ \A k \in 1..2 : getRoomsInfo[k].connections = 1
  /\ Cardinality({k \in 1..2 : getRoomsInfo[k].isActive}) = 1

\* C10: a started room has exactly one sync-loop chain, pending on a timer
\* or awaiting its send, and a room that has not started has none
C10_OneChainPerRoom ==
  \A r \in RoomIds : Chains(r) = IF phase[r] = "started" THEN 1 ELSE 0

\* C11: a tick that hands its drained batch to sendPixels and leaves the call
\* pending schedules no timer for its room: the next tick is scheduled only
\* once the send has settled
C11_NextTickAfterSettle ==
  [][\A r \in RoomIds :
       (/\ last'.op \in {"onStart", "updateLED", "switchResume"}
        /\ last'.room = r
        /\ last'.started = "sendPixels"
        /\ SendsOf(r)' > SendsOf(r))
         => timers'[r] <= timers[r]]_vars

\* C11 witness: a timer tick has just handed a batch to sendPixels, the call
\* is pending and no timer of the room is scheduled
C11_Witness ==
  /\ last.op = "updateLED" /\ last.started = "sendPixels"
  /\ last.drained # <<>>
  /\ SendsOf(last.room) = 1 /\ timers[last.room] = 0

\* C12: no step loses a sync-loop chain and no tick multiplies one: on every
\* path (idle, send fulfilled, send rejected, colour rejected by the client)
\* the room has as many chains after the step as before, except for the
\* chain that onStart or setActiveRoom starts
C12_LoopKeepsItsCycle ==
  [][\A r \in RoomIds :
       (last'.op \in {"onStart", "switchResume"} /\ last'.room = r)
         \/ Chains(r)' = Chains(r)]_vars

\* C12 witness: the client rejected a drained colour and the tick has
\* scheduled the next one
C12_Witness ==
  /\ last.op = "updateLED" /\ last.started = "sendPixelsThrew"
  /\ timers[last.room] = 1 /\ SendsOf(last.room) = 0

\* C13: a tick of a room that is not active, or whose dirty set is empty,
\* calls no client operation, puts nothing on the wire and leaves cells,
\* dirty sets, display and pending calls unchanged; it reschedules itself
C13_IdleTickIsQuiet ==
  [][(last'.op = "updateLED"
        /\ (last'.room # activeRoom \/ dirtyIndices[last'.room] = <<>>))
       => /\ last'.started = "none"
          /\ last'.emitted = <<>>
          /\ UNCHANGED <<activeRoom, gridState, dirtyIndices, roomStates, storage,
                         hw, timers, microQ, pace, posts, waiters, socks, wsOpen,
                         wsReadyPromise, wsMessageQueue>>]_vars

\* C13 witness: a room that is not active has just ticked and still holds
\* its dirty indices, a draw among them
C13_Witness ==
  /\ last.op = "updateLED" /\ last.room # activeRoom /\ last.started = "none"
  /\ Len(dirtyIndices[last.room]) = TOTAL_CELLS
  /\ gridState[last.room] # createEmptyGrid

\* sendPixels calls that have not settled
Sends == SelectSeq(Suspended, LAMBDA c : c.kind = "send")

\* the pairs of the chunks call c has emitted, in emission order
PairsOut(c) == Concat([k \in 1..Len(c.out) |-> c.out[k].pairs])

\* the pairs of a batch whose index lies on the grid, in the order of the
\* batch, each colour without '#' and in upper case
ValidPairs(batch) ==
  LET onGrid == SelectSeq(batch, LAMBDA u : 0 <= u[1] /\ u[1] < Len(hw))
  IN  [k \in 1..Len(onGrid) |-> <<onGrid[k][1], toUpperCase(StripHash(onGrid[k][2]))>>]

\* C14: the chunks a sendPixels call has emitted, concatenated in emission
\* order and followed by the pairs it has still to emit, are the pairs of the
\* batch with a valid index, in the order of the batch: no pair is dropped,
\* duplicated or reordered; once nothing is left the chunks are the batch
C14_ChunksPartitionBatch ==
  \A k \in 1..Len(Sends) :
    Sends[k].batch # <<>> => PairsOut(Sends[k]) \o Sends[k].rest = ValidPairs(Sends[k].batch)

C14_Witness ==
  \E k \in 1..Len(Sends) :
    /\ Sends[k].rest = <<>>
    /\ Len(Sends[k].out) >= 2
    /\ Len(Sends[k].batch) > Len(PairsOut(Sends[k]))

\* the byte budget of a transport
BudgetOf(via) == IF via = "ws" THEN opts.wsLimit ELSE opts.httpLimit

\* the pairs of the batch that follow chunk k of call c
PairsAfter(c, k) == IF k < Len(c.out) THEN c.out[k + 1].pairs ELSE c.rest

\* C15: the serialized payload of every emitted chunk is within the byte
\* budget of the transport it is sent on (1400 over WebSocket, 5000 over
\* HTTP), unless the chunk is a single pair that alone exceeds the budget; and
\* every chunk is the largest prefix of the remaining pairs that fits: with
\* the pair that follows it added, the payload would exceed the budget
C15_ChunksFitAndAreMaximal ==
  \A n \in 1..Len(Sends) : \A k \in 1..Len(Sends[n].out) :
    LET chunk == Sends[n].out[k]
        after == PairsAfter(Sends[n], k)
    IN  /\ \/ BodyBytes(chunk.pairs, Len(chunk.pairs)) <= BudgetOf(chunk.via)
           \/ Len(chunk.pairs) = 1
        /\ after # <<>> =>
             BodyBytes(Append(chunk.pairs, after[1]), Len(chunk.pairs) + 1)
               > BudgetOf(chunk.via)

C15_Witness ==
  /\ opts.wsLimit = WEBSOCKET_LIMIT
  /\ \E n \in 1..Len(Sends) :
       /\ Len(Sends[n].out) >= 2
       /\ Sends[n].out[1].via = "ws"
       /\ Len(Sends[n].out[1].pairs) > 1
       /\ BodyBytes(Sends[n].out[1].pairs, Len(Sends[n].out[1].pairs)) <= WEBSOCKET_LIMIT

\* C16: the chunk loop makes progress: every emitted chunk holds at least one
\* pair, also when a single pair exceeds the budget, so a batch of n valid
\* pairs is emitted in at most n chunks and the chunks emitted plus the pairs
\* left never exceed n
C16_ChunkLoopProgresses ==
  \A n \in 1..Len(Sends) :
    /\ \A k \in 1..Len(Sends[n].out) : Len(Sends[n].out[k].pairs) >= 1
    /\ Sends[n].batch # <<>> =>
         Len(Sends[n].out) + Len(Sends[n].rest) <= Len(ValidPairs(Sends[n].batch))

\* a batch of several pairs, each alone over the budget, went out pair by pair
C16_Witness ==
  \E n \in 1..Len(Sends) :
    /\ Sends[n].rest = <<>>
    /\ Len(Sends[n].out) >= 2
    /\ \A k \in 1..Len(Sends[n].out) :
         /\ Len(Sends[n].out[k].pairs) = 1
         /\ BodyBytes(Sends[n].out[k].pairs, 1) > BudgetOf(Sends[n].out[k].via)

\* the batch of call c holds more valid pixels than the large-batch threshold
LargeBatch(c) == Len(ValidPairs(c.batch)) > opts.largeBatch

\* call c has just emitted the first chunk of its batch
FirstChunkOut(c) ==
  /\ c.batch # <<>> /\ Len(c.out) = 1
  /\ c.pc = "post" \/ (c.pc = "pace" /\ c.ws)

\* the transport of every call, in one state: a large batch never awaits
\* ensureWebSocket and goes over HTTP; all chunks of a batch use one transport
TransportOfBatches ==
  \A n \in 1..Len(Sends) :
    LET c == Sends[n]
    IN  /\ c.batch # <<>> /\ LargeBatch(c) =>
             c.pc # "ensure" /\ \A k \in 1..Len(c.out) : c.out[k].via = "http"
        /\ \A j, k \in 1..Len(c.out) : c.out[j].via = c.out[k].via

\* C17: a batch of more than 300 valid pixels is sent over HTTP (with the
\* HTTP budget: C15), whatever the WebSocket preference and the state of the
\* session, and without a connect attempt; a batch of at most 300 is sent
\* over WebSocket exactly when the session is open once ensureWebSocket has
\* returned; the transport is chosen once and all chunks of the batch use it
C17_TransportSelection ==
  /\ []TransportOfBatches
  /\ [][\A n \in 1..Len(Sends') :
          LET c == Sends'[n]
          IN  (FirstChunkOut(c) /\ \A m \in 1..Len(Sends) : Sends[m] # c) =>
                IF LargeBatch(c)
                  THEN UNCHANGED <<socks, waiters, wsReadyPromise, wsOpen>>
                  ELSE (c.out[1].via = "ws") <=> (opts.useWebSocket /\ wsOpen)]_vars

C17_Witness ==
  /\ opts.useWebSocket /\ wsOpen
  /\ last.op = "sendPixels"
  /\ \E n \in 1..Len(Sends) :
       /\ LargeBatch(Sends[n]) /\ FirstChunkOut(Sends[n])
       /\ Sends[n].out[1].via = "http"

\* C18: a chunk whose delivery failed is not retried and the failure does
\* not end the batch: when the HTTP request of a chunk settles, whatever its
\* outcome, and pairs of the batch are still to be sent, the sendPixels call
\* goes on (it is still running after the step) and the failed chunk is not
\* put on the wire again by the step
C18_FailedChunkDoesNotEndBatch ==
  [][\A i \in 1..Len(posts) :
       (posts[i].kind = "send" /\ posts[i].rest # <<>> /\ posts' = RemoveAt(posts, i))
         => /\ Len(Sends') = Len(Sends)
            /\ last'.emitted = <<>>]_vars

\* nothing is in flight and nothing is left to send for the active room: with
\* the producers stopped, no later step changes the display
Quiescent ==
  /\ microQ = <<>> /\ Suspended = <<>> /\ wsMessageQueue = <<>>
  /\ phase[activeRoom] = "started"
  /\ dirtyIndices[activeRoom] = <<>>
  /\ \A r \in RoomIds : utilPending[r] = 0

\* every cell of the active room holds a colour the client accepts
Displayable ==
  \A i \in Cells : ~normalizeHexThrows(toHex(CellOf(gridState[activeRoom], i)))

\* C19: once nothing is in flight and nothing is dirty, which is where the
\* sync loop of an active room ends up when the producers have stopped, the
\* display shows, for every cell written since the room started, the current
\* colour of the cell (black for an unset one)
C19_DisplayConverges ==
  (Quiescent /\ Displayable) =>
    \A i \in Cells :
      latest[activeRoom][i + 1] # Undefined =>
        hw[i + 1] = normalizeHex(toHex(CellOf(gridState[activeRoom], i)))

\* the sockets that are connecting or open
LiveSockets == {s \in 1..Len(socks) : socks[s].st \in {"connecting", "open"}}

\* C20: in every reachable state, after any sequence of open, error and close
\* events of the current and of earlier sockets, at most one socket is
\* connecting or open
C20_AtMostOneLiveSocket == Cardinality(LiveSockets) <= 1

\* socket s opened in the step
Opened(s) == socks[s].st = "connecting" /\ socks'[s].st = "open"

IsPrefix(p, q) == Len(p) <= Len(q) /\ SubSeq(q, 1, Len(p)) = p

\* C21: a step in which a socket opens puts every queued message on the wire
\* exactly once, oldest first, and leaves the queue empty; every other step
\* leaves the queue as it is or appends to its end, so the messages passed to
\* sendOverWebSocket while the session is not open are queued in call order
C21_QueueFlushedInOrder ==
  [][IF \E s \in 1..Len(socks) : Opened(s)
       THEN /\ last'.emitted =
                 [k \in 1..Len(wsMessageQueue) |-> Wire(wsMessageQueue[k], "ws")]
            /\ wsMessageQueue' = <<>>
       ELSE IsPrefix(wsMessageQueue, wsMessageQueue')]_vars

C21_Witness ==
  /\ last.op = "onopen"
  /\ Len(last.emitted) >= 2
  /\ last.emitted[1] # last.emitted[2]
  /\ wsMessageQueue = <<>>

\* the session as its fields tell it
SessionState ==
  IF wsOpen THEN "open"
  ELSE IF wsReadyPromise # 0 THEN "connecting"
  ELSE "disconnected"

\* socket s, the one created last, had an error or a close event in the step
CurrentSocketFailed(s) ==
  /\ s = Len(socks)
  /\ socks[s].st \in {"connecting", "open"}
  /\ socks'[s].st \in {"errored", "closed"}

\* C22: an error or close event of the session's socket leaves the session
\* disconnected, and the session state only moves from disconnected to
\* connecting, from connecting to open, and from connecting or open back to
\* disconnected
C22_SessionStateMachine ==
  [][/\ (\E s \in 1..Len(socks) : CurrentSocketFailed(s)) =>
          SessionState' = "disconnected"
     /\ \/ SessionState' = SessionState
        \/ <<SessionState, SessionState'>> \in
             { <<"disconnected", "connecting">>, <<"connecting", "open">>,
               <<"connecting", "disconnected">>, <<"open", "disconnected">> }]_vars

\* the index of write u lies on the grid
OnGrid(u) == 0 <= u[1] /\ u[1] < Len(hw)

\* C23: a write whose index is outside [0, width * height) is dropped and is
\* no error: no pair sent or still to send carries such an index, the call
\* holds as many pairs as the batch has writes on the grid, and a call whose
\* batch has no unparseable colour on the grid does not throw; a batch whose
\* writes are all invalid settles at once as fulfilled, with no call left
\* running, nothing sent and no connect attempt
C23_InvalidIndexIsDropped ==
  /\ [](\A n \in 1..Len(Sends) :
          LET c == Sends[n]
              pairs == PairsOut(c) \o c.rest
          IN  c.batch # <<>> =>
                /\ \A k \in 1..Len(pairs) : OnGrid(pairs[k])
                /\ Len(pairs) = Len(SelectSeq(c.batch, OnGrid)))
  /\ [][LET b == last'.drained
        IN  (last'.op = "sendPixels" /\ b # <<>> /\ nRequests' = nRequests + 1) =>
              /\ (\A k \in 1..Len(b) : OnGrid(b[k]) => ~normalizeHexThrows(b[k][2]))
                   => last'.started = "sendPixels"
              /\ (\A k \in 1..Len(b) : ~OnGrid(b[k])) =>
                   /\ last'.emitted = <<>>
                   /\ timers'[last'.room] = timers[last'.room] + 1
                   /\ UNCHANGED <<microQ, pace, posts, waiters, socks, wsReadyPromise,
                                  wsMessageQueue, hw>>]_vars

C23_Witness ==
  /\ last.op = "sendPixels" /\ last.started = "sendPixels"
  /\ Len(last.drained) >= 2
  /\ \A k \in 1..Len(last.drained) : ~OnGrid(last.drained[k])
  /\ Sends = <<>> /\ timers[last.room] = 1

\* C24: a drained batch that holds a write with a parseable colour is sent:
\* an unparseable colour in the same batch does not make sendPixels throw
C24_BadColourSkippedAlone ==
  (Drained /\ \E k \in 1..Len(last.drained) : ~normalizeHexThrows(last.drained[k][2]))
    => last.started = "sendPixels"

\* the message is a draw with well typed fields and coordinates on the grid
WellFormedDraw(m) ==
  m.form = "draw" /\ 0 <= m.x /\ m.x < GRID_WIDTH /\ 0 <= m.y /\ m.y < GRID_HEIGHT

\* C25: a message that is not valid JSON, has an unknown type, or is a draw
\* with a missing or wrongly typed field or with x or y off the grid is
\* dropped: the cells, the dirty set, the registry copy and the stored state
\* of the room are unchanged, nothing is broadcast, and the connection and
\* everything else but the count of handled requests stay as they were
C25_MalformedMessageIsDropped ==
  [][(last'.op = "draw" /\ nRequests' = nRequests + 1 /\ ~WellFormedDraw(last'.input))
       => /\ last'.ret = "dropped"
          /\ UNCHANGED <<activeRoom, roomStates, roomOrder, roomConnections, phase,
                         gridState, dirtyIndices, storage, activeUtility,
                         utilPending, timers, microQ, pace, posts, waiters, socks,
                         wsOpen, wsReadyPromise, wsMessageQueue, hw, latest>>]_vars

C25_Witness ==
  /\ last.op = "draw" /\ last.ret = "dropped" /\ last.input.form = "colorNotString"
  /\ nRequests = MaxRequests
  /\ gridState[last.room] # createEmptyGrid

\* C26: the stored array of a started room that has been written is the
\* room's cell array: every mutation of the cells reached the storage
C26_StorageHoldsCells ==
  \A r \in RoomIds :
    (phase[r] = "started" /\ storage[r] # NoState) => storage[r] = gridState[r]

\* C27: once onStart of a room has ended, with the stored state loaded,
\* absent, or its load failed, the room has a full cell array, is known to
\* the registry and has its sync loop running
C27_StartupRecovers ==
  \A r \in RoomIds :
    phase[r] \in {"started", "failed"} =>
      /\ Len(gridState[r]) = TOTAL_CELLS
      /\ roomStates[r] # NoState
      /\ Chains(r) >= 1

\* C28: getRoomsInfo returns every room it was given exactly once, the
\* active room, when there is one, at position 0, and the other rooms in
\* non-increasing order of their connection counts
C28_RoomsListedActiveFirst ==
  last.op = "getRoomsInfo" =>
    LET rooms == last.input
        out == last.ret
    IN  /\ Len(out) = Len(rooms)
        /\ \A k \in 1..Len(rooms) : \E j \in 1..Len(out) : out[j] = rooms[k]
        /\ (\E k \in 1..Len(rooms) : rooms[k].isActive) => out[1].isActive
        /\ \A i, j \in 1..Len(out) :
             (i < j /\ ~out[i].isActive /\ ~out[j].isActive)
               => out[i].connections >= out[j].connections

C28_Witness ==
  /\ last.op = "getRoomsInfo"
  /\ Len(last.input) = MaxListed
  /\ last.input[MaxListed].isActive
  /\ last.input[1].connections < last.input[2].connections
  /\ last.ret[1].id = MaxListed /\ last.ret[2].id = 2

\* C29: for every width, height, orientation and serpentine flag,
\* computeIndex maps the coordinates of the grid one-to-one onto
\* 0..width*height-1, and a coordinate outside the grid raises an error
\* instead of returning an index
C29_ComputeIndexIsBijection ==
  last.op = "computeIndex" =>
    LET a == last.input
        valid == (0..(a.width - 1)) \X (0..(a.height - 1))
        at(p) == computeIndex(p[1], p[2], a.width, a.height, a.serpentine, a.orientation)
    IN  /\ { at(p) : p \in valid } = 0..(a.width * a.height - 1)
        /\ <<a.x, a.y>> \in valid =>
             /\ last.ret = "returned"
             /\ last.emitted = <<at(<<a.x, a.y>>)>>
             /\ \A p \in valid : at(p) = last.emitted[1] => p = <<a.x, a.y>>
        /\ <<a.x, a.y>> \notin valid => (last.ret = "throws" /\ last.emitted = <<>>)

C29_Witness ==
  /\ last.op = "computeIndex" /\ last.ret = "returned"
  /\ last.input.serpentine /\ last.input.orientation = "bottom-right"
  /\ last.input.width = 3 /\ last.input.height = 2
  /\ last.input.x = 0 /\ last.input.y = 0
  /\ last.emitted = <<3>>

\* the value of an uppercase hex digit, and of two of them
HexValue(ch) ==
  CASE ch = "A" -> 10 [] ch = "B" -> 11 [] ch = "C" -> 12
    [] ch = "D" -> 13 [] ch = "E" -> 14 [] ch = "F" -> 15
    [] OTHER -> DigitValue(ch)

ByteValue(hex, k) == 16 * HexValue(hex[2 * k - 1]) + HexValue(hex[2 * k])

UpperHexDigits == Digits \cup {"A", "B", "C", "D", "E", "F"}

\* the byte v is the channel (in tenths) rounded and clamped to 0..255
ClampedRounded(v, tenths) ==
  IF tenths < 0 THEN v = 0
  ELSE IF tenths > 2550 THEN v = 255
  ELSE 10 * v - tenths <= 5 /\ tenths - 10 * v <= 5

SixHexDigits(color) ==
  LET trimmed == StripHash(color)
  IN  Len(trimmed) = 6 /\ \A i \in 1..6 : trimmed[i] \in HexDigits

\* C30: normalizeHex maps "#abc" to "AABBCC", maps an {r, g, b} colour to
\* six uppercase hex digits whose bytes are the channels rounded and clamped
\* to 0..255 ({255, 0, 10} to "FF000A"), and raises for "zzz" and for every
\* other string that is not six hex digits after an optional '#'
C30_NormalizeHexContract ==
  /\ last.op = "normalizeHex(string)" =>
       /\ last.input = HashAbc =>
            (last.ret = "returned" /\ last.emitted = <<<<"A", "A", "B", "B", "C", "C">>>>)
       /\ last.input = Bad => last.ret = "throws"
       /\ (last.input # HashAbc /\ ~SixHexDigits(last.input)) => last.ret = "throws"
  /\ last.op = "normalizeHex(rgb)" =>
       /\ last.ret = "returned"
       /\ Len(last.emitted[1]) = 6
       /\ \A i \in 1..6 : last.emitted[1][i] \in UpperHexDigits
       /\ \A k \in 1..3 : ClampedRounded(ByteValue(last.emitted[1], k), last.input[k])
       /\ last.input = <<2550, 0, 100>> =>
            last.emitted = <<<<"F", "F", "0", "0", "0", "A">>>>

\* the request carries the admin cookie with the configured secret as its
\* value
CarriesSecret(cookieHeader) ==
  \E k \in 1..Len(cookieHeader) :
    /\ Len(cookieHeader[k]) = 2
    /\ cookieHeader[k][1] = COOKIE_NAME
    /\ <<cookieHeader[k][2]>> = opts.adminSecret

\* C31: an admin request whose led_grid_admin cookie is missing or differs
\* from the admin secret, whatever other cookies it carries and whether or
\* not a secret is configured, is answered 401 and changes nothing: the
\* active room, the cells, the active utility and the hardware calls stay
C31_UnauthorizedChangesNothing ==
  [][(last'.op \in {"onRequest", "setActiveRoom"} /\ ~CarriesSecret(last'.input.cookie))
       => /\ last'.ret = "401"
          /\ UNCHANGED <<activeRoom, roomStates, gridState, activeUtility, utilPending,
                         microQ, pace, posts, waiters, socks, hw>>]_vars

\* the connect attempt of socket s has ended without opening
EndedWithoutOpening(s) ==
  socks[s].st \in {"errored", "closed"} /\ socks[s].prom # "resolved"

\* call c, which awaited the connect attempt c.att, sends its first chunk
\* over HTTP and within the HTTP budget
FallsBackToHttp(c) ==
  /\ c.out[1].via = "http"
  /\ \/ BodyBytes(c.out[1].pairs, Len(c.out[1].pairs)) <= opts.httpLimit
     \/ Len(c.out[1].pairs) = 1

\* C32: when WebSocket is preferred and the connect attempt fails, is refused
\* or ends without opening, the sendPixels call of a batch of at most 300
\* pixels does not stay parked on the attempt, and it sends the batch over
\* HTTP under the HTTP budget
C32_FailedConnectFallsBackToHttp ==
  /\ [](\A s \in 1..Len(socks) : EndedWithoutOpening(s) => waiters[s] = <<>>)
  /\ [][\A n \in 1..Len(Sends') :
          LET c == Sends'[n]
          IN  (/\ FirstChunkOut(c) /\ \A m \in 1..Len(Sends) : Sends[m] # c
               /\ ~LargeBatch(c) /\ c.att > 0 /\ EndedWithoutOpening(c.att))
                => FallsBackToHttp(c)]_vars

\* the step before this one handled a stop request for room r
StopHandled(r) ==
  last.op = "onRequest" /\ last.ret = "200" /\ last.input.path = "stop" /\ last.room = r

\* C33: once a stop has been handled, no utility result is applied to the
\* cells of the room and its active utility stays null until a later
\* executeUtility request, also when an earlier executeUtility was still
\* awaiting its data at the time of the stop
C33_StopPreventsNewWrites ==
  [][\A r \in RoomIds :
       (StopHandled(r) /\ utilPending'[r] < utilPending[r])
         => (gridState'[r] = gridState[r] /\ activeUtility'[r] = "null")]_vars

\* the sendPixels call pace[i] settles in this step, its batch sent
Settles(i) ==
  /\ pace[i].kind = "send" /\ pace[i].rest = <<>> /\ pace[i].out # <<>>
  /\ pace' = RemoveAt(pace, i)

\* C34: after a flush settles, updateLED reschedules with the short delay
\* when the batch was sent over WebSocket and with the long delay when it was
\* sent over HTTP, also when the batch was forced to HTTP by the threshold or
\* by a failed connect; a non-active room reschedules after 1000 ms
C34_RetryDelayFollowsTransport ==
  /\ []((last.op = "updateLED" /\ last.room # activeRoom)
          => last.delay = INACTIVE_CHECK_MS)
  /\ [][\A i \in 1..Len(pace) :
          Settles(i) =>
            last'.delay = IF pace[i].out[1].via = "ws"
                            THEN LED_UPDATE_RETRY_MS_WEBSOCKET
                            ELSE LED_UPDATE_RETRY_MS_HTTP]_vars

\* this step is a draw, a clear or a utility grid update in room r
MutatesCells(r) ==
  \/ /\ last'.op = "clear" \/ (last'.op = "draw" /\ last'.ret = "accepted")
     /\ last'.room = r /\ nRequests' = nRequests + 1
  \/ utilPending'[r] < utilPending[r] /\ gridState'[r] # gridState[r]

\* C35: the registry copy of a room's cells equals the cell array of the room
\* after every draw, clear and utility grid update
C35_RegistryCopyFollowsCells ==
  [][\A r \in RoomIds : MutatesCells(r) => roomStates'[r] = gridState'[r]]_vars

\* C36: a 'clear' message handled by a room that is not the active room
\* changes the cells, registry copy and persisted state of that room only,
\* and starts no hardware clear or write
C36_InactiveClearLeavesHardware ==
  [][(last'.op = "clear" /\ last'.room # activeRoom /\ nRequests' = nRequests + 1)
       => /\ last'.started = "none"
          /\ UNCHANGED <<microQ, pace, posts, waiters, socks, wsMessageQueue, hw>>
          /\ \A r \in RoomIds \ {last'.room} :
               /\ gridState'[r] = gridState[r]
               /\ roomStates'[r] = roomStates[r]
               /\ storage'[r] = storage[r]]_vars

\* the step before this one delivered the hardware clear of a 'clear'
\* message of room r
HardwareCleared(r) == last.op = "clearDone" /\ last.room = r

\* a pixel of m is not off
Lit(m) == m.type = "pixels" /\ \E k \in 1..Len(m.pairs) : m.pairs[k][2] # Black

\* this step delivers to the hardware a chunk of room r with a pixel that is
\* not off: sent on the open socket, or an HTTP request answered 2xx
DeliversLit(r) ==
  \/ \E k \in 1..Len(last'.emitted) :
       /\ last'.emitted[k].via = "ws" /\ last'.emitted[k].room = r
       /\ Lit(last'.emitted[k])
  \/ \E i \in 1..Len(posts) :
       /\ posts' = RemoveAt(posts, i) /\ posts[i].msg.room = r /\ Lit(posts[i].msg)
       /\ hw' = ApplyMsg(hw, posts[i].msg) /\ hw' # hw

\* C37: after a 'clear' message is handled for the active room and no draw
\* follows (the cells of the room stay empty), no chunk drained before the
\* clear is delivered to the hardware after the hardware clear
C37_NoStaleChunkAfterClear ==
  [][\A r \in RoomIds :
       (/\ HardwareCleared(r) /\ r = activeRoom
        /\ gridState[r] = createEmptyGrid /\ gridState'[r] = createEmptyGrid)
         => ~DeliversLit(r)]_vars

\* C38: the updates of one cell reach the hardware in write order: once the
\* display shows, for a cell of the active room, the colour of the last write
\* to it, no step sends for that cell the colour of an earlier write (the
\* cells are drawn red, then green, so another lit colour is an earlier one)
SendsEarlier(r, i) ==
  \E k \in 1..Len(last'.emitted) :
    /\ last'.emitted[k].type = "pixels"
    /\ last'.emitted[k].room = r
    /\ \E j \in 1..Len(last'.emitted[k].pairs) :
         /\ last'.emitted[k].pairs[j][1] = i
         /\ last'.emitted[k].pairs[j][2] # Black
         /\ last'.emitted[k].pairs[j][2] # toHex(latest[r][i + 1])

C38_UpdatesInWriteOrder ==
  [][\A r \in RoomIds, i \in Cells :
       (/\ r = activeRoom
        /\ latest[r][i + 1] = Green
        /\ latest'[r][i + 1] = Green
        /\ hw[i + 1] = toHex(Green))
         => ~SendsEarlier(r, i)]_vars

\* C39: every call of ensureWebSocket settles whichever event ends the connect
\* attempt (open, error, or close alone): once a socket is no longer
\* connecting, the promise of its attempt is settled and no call, of a sync
\* loop or of a clear, is still parked on it
C39_ConnectAttemptSettlesCallers ==
  \A s \in 1..Len(socks) :
    socks[s].st # "connecting"
      => /\ socks[s].prom \in {"resolved", "rejected"}
         /\ waiters[s] = <<>>

\* C40: the outbound queue holds messages only while the session is not
\* open: in every state between two steps (no send is running then) in which
\* the session is open, the queue is empty
C40_QueueEmptyWhileOpen ==
  SessionState = "open" => wsMessageQueue = <<>>
====
